---- MODULE Spec2Model ----
(***************************************************************************)
(* Model of the agent registry's HTTP facade: the POST /v1/mother/agent    *)
(* pipeline (fetch, flatten, identity resolution, mint, sync), the         *)
(* quiz_completed webhook, and the external collaborators they talk to     *)
(* (the Intuition registry reached through sync/search and the identity    *)
(* contract reached through register()).                                   *)
(*                                                                         *)
(* Strings that the code inspects are modelled by what the code does with  *)
(* them: error messages are sequences of characters (toLowerCase and       *)
(* includes are computed), identifiers are sequences of colon-free chunks  *)
(* separated by the ":" character (split(":") is computed).                *)
(***************************************************************************)
EXTENDS Integers, Sequences, FiniteSets, TLC

\* ------------------------------------------------------------------ bounds
\* Number of HTTP requests (mother/agent and events) the server receives.
MaxReq == 2

\* ----------------------------------------------------------- string helpers
\* String.prototype.toLowerCase on one character (the letters the messages use).
LowerChar(c) ==
  CASE c = "A" -> "a" [] c = "E" -> "e" [] c = "M" -> "m" [] c = "T" -> "t"
    [] c = "V" -> "v" [] c = "N" -> "n" [] c = "O" -> "o" [] c = "R" -> "r"
    [] c = "B" -> "b" [] c = "C" -> "c" [] c = "S" -> "s"
    [] OTHER -> c

toLowerCase(s) == [i \in 1..Len(s) |-> LowerChar(s[i])]

\* String.prototype.includes: needle occurs in hay as a contiguous substring.
includes(hay, needle) ==
  \E i \in 0..(Len(hay) - Len(needle)) :
    \A j \in 1..Len(needle) : hay[i + j] = needle[j]

\* The two needles of isAlreadyExistsError.
NeedleMultivaultAtomExists ==
  <<"m","u","l","t","i","v","a","u","l","t","_","a","t","o","m","e","x","i","s","t","s">>

NeedleAtomExists == <<"a","t","o","m","e","x","i","s","t","s">>

\* ------------------------------------------------------------ error objects
\* What an awaited call of an external library can reject with: an object with
\* a name, a message and (viem) a nested cause message.  "" is the absent field.
MsgAtomExists ==
  <<"M","u","l","t","i","V","a","u","l","t","_","A","t","o","m","E","x","i","s","t","s">>

MsgReverted == <<"r","e","v","e","r","t","e","d">>

MsgNetwork == <<"E","C","O","N","N","R","E","S","E","T">>

MsgAborted == <<"a","b","o","r","t","e","d">>

NoError == [name |-> "", message |-> <<>>, cause |-> <<>>]

ErrAtomExists == [name |-> "Error", message |-> MsgAtomExists, cause |-> <<>>]

ErrAtomExistsCause == [name |-> "Error", message |-> MsgReverted, cause |-> MsgAtomExists]

ErrNetwork == [name |-> "Error", message |-> MsgNetwork, cause |-> <<>>]

ErrAbort == [name |-> "AbortError", message |-> MsgAborted, cause |-> <<>>]

\* Mutant: only the top-level message is inspected, the nested cause is ignored.
isAlreadyExistsErrorNoCause(error) ==
  LET msg == toLowerCase(error.message)
  IN  includes(msg, NeedleMultivaultAtomExists) \/ includes(msg, NeedleAtomExists)

\* utils.ts isAlreadyExistsError
isAlreadyExistsError(error) ==
  LET msg      == toLowerCase(error.message)
      causeMsg == toLowerCase(error.cause)
  IN  IF includes(msg, NeedleMultivaultAtomExists) \/ includes(msg, NeedleAtomExists)
      THEN TRUE
      ELSE IF includes(causeMsg, NeedleMultivaultAtomExists)
              \/ includes(causeMsg, NeedleAtomExists)
           THEN TRUE
           ELSE FALSE

\* -------------------------------------------------------------- identifiers
\* A string the code splits is a sequence of chunks; the chunk ":" is the colon
\* character, every other chunk is colon-free text (possibly several characters).
Colon == ":"

\* `${a}:${b}:${c}` on three strings.
Join3(a, b, c) == a \o <<Colon>> \o b \o <<Colon>> \o c

\* Index of the first colon of s, or 0.
FirstColon(s) ==
  IF \E i \in 1..Len(s) : s[i] = Colon
  THEN CHOOSE i \in 1..Len(s) : s[i] = Colon /\ \A j \in 1..(i - 1) : s[j] # Colon
  ELSE 0

\* String.prototype.split(":"): the sequence of the parts between the colons.
RECURSIVE split(_)
split(s) ==
  LET i == FirstColon(s)
  IN  IF i = 0 THEN <<s>>
      ELSE <<SubSeq(s, 1, i - 1)>> \o split(SubSeq(s, i + 1, Len(s)))

Null == [null |-> TRUE]

\* services/nft.ts formatNftIdentifier
formatNftIdentifier(chainId, contractAddress, tokenId) ==
  Join3(chainId, contractAddress, tokenId)

\* services/nft.ts parseNftIdentifier
parseNftIdentifier(nftId) ==
  LET parts == split(nftId)
  IN  IF Len(parts) # 3 THEN Null
      ELSE [chainId |-> parts[1], contractAddress |-> parts[2], tokenId |-> parts[3]]

\* Mutant: every string counts as an NFT identifier.
isNftIdentifierAny(str) == Len(split(str)) >= 1

\* services/nft.ts isNftIdentifier
isNftIdentifier(str) == parseNftIdentifier(str) # Null

\* ------------------------------------------------------------ configuration
\* sepoliaConfig.chainId.toString(): the chain id of viem's sepolia chain.
ChainIdStr == <<"11155111">>

\* The deployed identity contract, a well-formed address.
ContractAddress == <<"0xC0FFEE">>

\* ethers.isAddress, on the addresses the model uses.
isAddress(a) == a \in {ContractAddress}

Comma == ","

\* The configuration with the single secret API_KEY=k1.
Env(contractAddress, rpcUrl, signer) ==
  [ AGENT_IDENTITY_CONTRACT_ADDRESS |-> contractAddress,
    SEPOLIA_RPC_URL |-> rpcUrl,
    SIGNER |-> signer,
    API_KEY |-> <<"k1">>, API_KEY_1 |-> <<>>, API_KEY_2 |-> <<>>, API_KEYS |-> <<>> ]

\* The same configuration with other API-key variables.
WithApiKeys(environment, apiKey, apiKey1, apiKey2, apiKeys) ==
  [environment EXCEPT !.API_KEY = apiKey, !.API_KEY_1 = apiKey1,
                      !.API_KEY_2 = apiKey2, !.API_KEYS = apiKeys]

\* process.env as the server reads it; <<>> is an unset variable.  The complete
\* configuration, and the ones with a single variable unset or malformed; the
\* secrets are given as API_KEY, as the numbered series, as the list " k1 ,,k2",
\* as API_KEY with a numbered key that has no API_KEY_1 before it, or not at all.
EnvChoices ==
  { Env(ContractAddress, <<"https://rpc">>, <<"0xKEY">>),
    WithApiKeys(Env(<<>>, <<"https://rpc">>, <<"0xKEY">>), <<>>, <<"k1">>, <<"k2">>, <<>>),
    WithApiKeys(Env(<<"not-an-address">>, <<"https://rpc">>, <<"0xKEY">>), <<>>, <<>>, <<>>,
                <<" ", "k1", " ", Comma, Comma, "k2">>),
    WithApiKeys(Env(ContractAddress, <<>>, <<"0xKEY">>), <<"k1">>, <<>>, <<"k2">>, <<>>),
    Env(ContractAddress, <<"https://rpc">>, <<>>),
    WithApiKeys(Env(ContractAddress, <<"https://rpc">>, <<"0xKEY">>), <<>>, <<>>, <<>>, <<>>) }

\* The x-api-key header of a request; <<>> is a request without the header.
Headers == { <<>>, <<"k1">>, <<"k2">> }

\* ------------------------------------------------------------------- inputs
Urls == {<<"u1">>, <<"u2">>}

\* new URL(candidate) succeeds: the text is one of the well-formed URLs.
IsValidUrl(s) == s \in Urls

NotAUrl == <<"not a url">>

\* --------------------------------------------------------------- JSON values
\* A JSON value is a tagged record; an object is the ordered sequence of its
\* <<key, value>> entries (Object.entries order), a string is a chunk sequence.
JNull == [t |-> "null"]

JStr(s) == [t |-> "str", v |-> s]

JNum(n) == [t |-> "num", v |-> n]

JBool(b) == [t |-> "bool", v |-> b]

JArr(items) == [t |-> "arr", v |-> items]

JObj(entries) == [t |-> "obj", v |-> entries]

\* JavaScript truthiness of a JSON value.
Truthy(x) ==
  CASE x.t = "null" -> FALSE
    [] x.t = "str"  -> x.v # <<>>
    [] x.t = "num"  -> x.v # 0
    [] x.t = "bool" -> x.v
    [] OTHER        -> TRUE

\* typeof x === "object" (null, arrays and objects).
TypeofObject(x) == x.t \in {"null", "arr", "obj"}

\* Concatenation of a sequence of strings with a separator chunk between them.
RECURSIVE JoinWith(_, _)
JoinWith(strs, sep) ==
  IF Len(strs) = 0 THEN <<>>
  ELSE IF Len(strs) = 1 THEN strs[1]
  ELSE strs[1] \o <<sep>> \o JoinWith(Tail(strs), sep)

\* JSON.stringify (no escapes are needed for the strings of the model).
RECURSIVE JsonStringify(_)
JsonStringify(x) ==
  CASE x.t = "null" -> <<"null">>
    [] x.t = "str"  -> <<"\"">> \o x.v \o <<"\"">>
    [] x.t = "num"  -> <<ToString(x.v)>>
    [] x.t = "bool" -> IF x.v THEN <<"true">> ELSE <<"false">>
    [] x.t = "arr"  ->
         <<"[">> \o JoinWith([i \in 1..Len(x.v) |-> JsonStringify(x.v[i])], ",") \o <<"]">>
    [] x.t = "obj"  ->
         <<"{">>
         \o JoinWith([i \in 1..Len(x.v) |->
                        <<"\"">> \o x.v[i][1] \o <<"\"">> \o <<Colon>> \o JsonStringify(x.v[i][2])],
                     ",")
         \o <<"}">>

\* String(item) for a number or a boolean.
StringOf(x) == IF x.t = "num" THEN <<ToString(x.v)>> ELSE IF x.v THEN <<"true">> ELSE <<"false">>

\* ---------------------------------------------------------- flat records
\* A flat record (a JavaScript object used as a map) is the ordered sequence of
\* its <<key, value>> entries, keys unique.
HasKey(rec, k) == \E i \in 1..Len(rec) : rec[i][1] = k

\* rec[k] = v: replaces the value of an existing key in place, else appends.
SetKey(rec, k, v) ==
  IF HasKey(rec, k)
  THEN [i \in 1..Len(rec) |-> IF rec[i][1] = k THEN <<k, v>> ELSE rec[i]]
  ELSE Append(rec, <<k, v>>)

\* Object.keys(rec) as a set.
Keys(rec) == {rec[i][1] : i \in 1..Len(rec)}

\* utils.ts flattenToOneLevel(input, parentKey, result); FlattenEntries is its
\* for-loop over Object.entries(input) from entry i on.
RECURSIVE flattenToOneLevel(_, _, _)
RECURSIVE FlattenEntries(_, _, _, _)
\* Mutant: object elements of an array are kept as objects.
FlattenEntriesKeepObjects(entries, i, parentKey, result) ==
  IF i > Len(entries) THEN result
  ELSE
    LET key    == entries[i][1]
        value  == entries[i][2]
        newKey == IF parentKey # <<>> THEN parentKey \o <<Colon>> \o key ELSE key
        next   ==
          IF Truthy(value) /\ TypeofObject(value) /\ value.t # "arr"
          THEN flattenToOneLevel(value, newKey, result)
          ELSE SetKey(result, newKey, value)
    IN  FlattenEntries(entries, i + 1, parentKey, next)

FlattenEntries(entries, i, parentKey, result) ==
  IF i > Len(entries) THEN result
  ELSE
    LET key    == entries[i][1]
        value  == entries[i][2]
        newKey == IF parentKey # <<>> THEN parentKey \o <<Colon>> \o key ELSE key
        next   ==
          IF Truthy(value) /\ TypeofObject(value)
          THEN IF value.t = "arr"
               THEN SetKey(result, newKey,
                      JArr([j \in 1..Len(value.v) |->
                              IF Truthy(value.v[j]) /\ TypeofObject(value.v[j])
                              THEN JStr(JsonStringify(value.v[j]))
                              ELSE value.v[j]]))
               ELSE flattenToOneLevel(value, newKey, result)
          ELSE SetKey(result, newKey, value)
    IN  FlattenEntries(entries, i + 1, parentKey, next)

flattenToOneLevel(input, parentKey, result) ==
  IF Truthy(input) /\ TypeofObject(input) /\ input.t # "arr"
  THEN FlattenEntries(input.v, 1, parentKey, result)
  ELSE result

RECURSIVE NormalizeFrom(_, _, _)
\* utils.ts normalizeFlatValues; NormalizeFrom is its for-loop from entry i on.
NormalizeFrom(flat, i, out) ==
  IF i > Len(flat) THEN out
  ELSE
    LET k == flat[i][1]
        v == flat[i][2]
        next ==
          IF v.t = "null" THEN out
          ELSE IF v.t = "arr"
          THEN SetKey(out, k,
                 JArr([j \in 1..Len(v.v) |->
                    LET item == v.v[j]
                    IN  IF item.t = "null" THEN JStr(<<>>)
                        ELSE IF item.t = "str" THEN item
                        ELSE IF item.t \in {"num", "bool"} THEN JStr(StringOf(item))
                        ELSE JStr(JsonStringify(item))]))
          ELSE IF v.t = "str" THEN SetKey(out, k, v)
          ELSE IF v.t \in {"num", "bool"} THEN SetKey(out, k, JStr(StringOf(v)))
          ELSE SetKey(out, k, JStr(JsonStringify(v)))
    IN  NormalizeFrom(flat, i + 1, next)

normalizeFlatValues(flat) == NormalizeFrom(flat, 1, <<>>)

\* routes/events.ts carries its own normalizeFlatValues, used by the generic
\* POST /v1/intuition/ route; NormalizeFromRoute is its for-loop from entry i
\* on.  It differs from the one of utils.ts in the null case.
RECURSIVE NormalizeFromRoute(_, _, _)
NormalizeFromRoute(flat, i, out) ==
  IF i > Len(flat) THEN out
  ELSE
    LET k == flat[i][1]
        v == flat[i][2]
        next ==
          IF v.t = "null" THEN SetKey(out, k, JStr(<<>>))
          ELSE IF v.t = "arr"
          THEN SetKey(out, k,
                 JArr([j \in 1..Len(v.v) |->
                    LET item == v.v[j]
                    IN  IF item.t = "null" THEN JStr(<<>>)
                        ELSE IF item.t = "str" THEN item
                        ELSE IF item.t \in {"num", "bool"} THEN JStr(StringOf(item))
                        ELSE JStr(JsonStringify(item))]))
          ELSE IF v.t = "str" THEN SetKey(out, k, v)
          ELSE IF v.t \in {"num", "bool"} THEN SetKey(out, k, JStr(StringOf(v)))
          ELSE SetKey(out, k, JStr(JsonStringify(v)))
    IN  NormalizeFromRoute(flat, i + 1, next)

normalizeFlatValuesRoute(flat) == NormalizeFromRoute(flat, 1, <<>>)

\* ------------------------------------------------------- skill-tag extractor
Space == " "

\* String.prototype.trim on a chunk sequence whose blanks are Space chunks.
RECURSIVE TrimLeft(_)
TrimLeft(s) == IF Len(s) > 0 /\ s[1] = Space THEN TrimLeft(Tail(s)) ELSE s

RECURSIVE TrimRight(_)
TrimRight(s) ==
  IF Len(s) > 0 /\ s[Len(s)] = Space THEN TrimRight(SubSeq(s, 1, Len(s) - 1)) ELSE s

trim(s) == TrimRight(TrimLeft(s))

\* The skill objects a JSON-encoded skill string of the model can decode to.
SkillObjects ==
  { JObj(<< <<<<"id">>, JStr(<<"s1">>)>>,
            <<<<"tags">>, JArr(<<JStr(<<"x">>), JStr(<<Space, "y", Space>>)>>)>> >>),
    JObj(<< <<<<"tags">>, JArr(<<JStr(<<"x">>), JNum(7), JStr(<<Space>>)>>)>> >>),
    JObj(<< <<<<"id">>, JStr(<<"s3">>)>> >>) }

ParseError == [t |-> "SyntaxError"]

\* The values a JSON text of the model can decode to: the skill objects, and
\* values that are not objects.
Parsable == SkillObjects \cup { JNull, JNum(7), JArr(<<>>) }

\* JSON.parse: the value whose serialisation is the text, or a SyntaxError.
JsonParse(s) ==
  IF \E x \in Parsable : JsonStringify(x) = s
  THEN CHOOSE x \in Parsable : JsonStringify(x) = s
  ELSE ParseError

\* obj[k] for a JSON object; JNull stands for undefined.
GetField(obj, k) ==
  IF \E i \in 1..Len(obj.v) : obj.v[i][1] = k
  THEN obj.v[CHOOSE i \in 1..Len(obj.v) :
               obj.v[i][1] = k /\ \A j \in (i + 1)..Len(obj.v) : obj.v[j][1] # k][2]
  ELSE JNull

\* Mutant: an array push, which keeps duplicates.
SetAddAgain(seq, x) == Append(seq, x)

\* Set.add on an insertion-ordered set kept as a duplicate-free sequence.
SetAdd(seq, x) == IF \E i \in 1..Len(seq) : seq[i] = x THEN seq ELSE Append(seq, x)

\* The inner loop of collectSkillTagsFromData: for (const tag of skillTags).
RECURSIVE AddTags(_, _, _)
AddTags(skillTags, j, tags) ==
  IF j > Len(skillTags) THEN tags
  ELSE LET tag == skillTags[j]
       IN  AddTags(skillTags, j + 1,
             IF tag.t = "str" /\ trim(tag.v) # <<>> THEN SetAdd(tags, trim(tag.v)) ELSE tags)

\* The outer loop of collectSkillTagsFromData: for (const skill of skills).
RECURSIVE CollectFrom(_, _, _)
CollectFrom(skills, i, tags) ==
  IF i > Len(skills) THEN tags
  ELSE
    LET skill    == skills[i]
        skillObj == IF skill.t = "str" THEN JsonParse(skill.v) ELSE skill
        next ==
          IF ~Truthy(skill) THEN tags
          ELSE IF skillObj = ParseError THEN tags
          ELSE IF ~(Truthy(skillObj) /\ TypeofObject(skillObj)) THEN tags
          ELSE LET t == IF skillObj.t = "obj" THEN GetField(skillObj, <<"tags">>) ELSE JNull
                   skillTags == IF t.t = "arr" THEN t.v ELSE <<>>
               IN  AddTags(skillTags, 1, tags)
    IN  CollectFrom(skills, i + 1, next)

\* utils.ts collectSkillTagsFromData: the tags as an array of JSON strings.
collectSkillTagsFromData(data) ==
  IF ~(Truthy(data) /\ TypeofObject(data)) THEN JArr(<<>>)
  ELSE LET skills == IF data.t = "obj" THEN GetField(data, <<"skills">>) ELSE JNull
       IN  IF skills.t # "arr" THEN JArr(<<>>)
           ELSE LET tags == CollectFrom(skills.v, 1, <<>>)
                IN  JArr([i \in 1..Len(tags) |-> JStr(tags[i])])

\* ------------------------------------------------------------ reverse mapper
KeySkillTags == <<"skill_tags">>

KeyKeywords == <<"https", Colon, "//schema.org/keywords">>

KeyStateTransitionHistory == <<"capabilities", Colon, "stateTransitionHistory">>

KeyAuthenticationSchemes == <<"authentication", Colon, "schemes">>

KeySkills == <<"skills">>

\* A triple of atomDetails.as_subject_triples: predicate.data, predicate.label,
\* object.label and object.data, each a JSON string or JNull.
Triple(pdata, plabel, olabel, odata) ==
  [pdata |-> pdata, plabel |-> plabel, olabel |-> olabel, odata |-> odata]

\* a || b
Or(a, b) == IF Truthy(a) THEN a ELSE b

fieldsToInclude ==
  { <<"name">>, <<"description">>, <<"url">>, <<"version">>, <<"protocolVersion">>,
    <<"agent_card_url">>, <<"provider", Colon, "organization">>, <<"provider", Colon, "url">>,
    <<"mint_transaction_hash">> }

arrayFields == { KeyAuthenticationSchemes, KeySkills }

booleanFields == { KeyStateTransitionHistory }

\* utils.ts extractSkillTagsFromTriple: the tags as a sequence of strings.
extractSkillTagsFromTriple(triple) ==
  IF ~Truthy(triple.odata) THEN <<>>
  ELSE LET parsed == JsonParse(triple.odata.v)
       IN  IF parsed = ParseError THEN <<>>
           ELSE LET tags == IF parsed.t = "obj" THEN GetField(parsed, <<"tags">>) ELSE JNull
                IN  IF tags.t # "arr" THEN <<>>
                    ELSE LET strings == SelectSeq(tags.v, LAMBDA tag : tag.t = "str")
                             trimmed == [j \in 1..Len(strings) |-> trim(strings[j].v)]
                         IN  SelectSeq(trimmed, LAMBDA tag : tag # <<>>)

\* Array.from(new Set(seq)): the first occurrences, in order.
RECURSIVE Dedupe(_)
Dedupe(seq) ==
  IF Len(seq) = 0 THEN <<>>
  ELSE LET init == Dedupe(SubSeq(seq, 1, Len(seq) - 1))
       IN  SetAdd(init, seq[Len(seq)])

\* The state of the loop of mapAtomDetailsToAgentData: the view built so far
\* and the two collections kept beside it.
MapState(agentData, tags, skillTags) ==
  [agentData |-> agentData, tags |-> tags, skillTags |-> skillTags]

\* Mutant: the whitelist is not consulted.
MapTripleNoWhitelist(st, triple) ==
  LET predicate == Or(triple.pdata, triple.plabel)
  IN  IF ~Truthy(predicate) \/ triple.odata.t = "null" THEN st
      ELSE IF HasKey(st.agentData, predicate.v) THEN st
      ELSE [st EXCEPT !.agentData = SetKey(@, predicate.v, Or(triple.olabel, triple.odata))]

\* Mutant: a later triple of a single-value predicate replaces the value.
MapTripleLastWins(st, triple) ==
  LET predicate == Or(triple.pdata, triple.plabel)
  IN  IF ~Truthy(predicate) \/ triple.odata.t = "null" THEN st
      ELSE IF predicate.v \notin fieldsToInclude THEN st
      ELSE [st EXCEPT !.agentData = SetKey(@, predicate.v, Or(triple.olabel, triple.odata))]

\* utils.ts mapAtomDetailsToAgentData: the body of its loop for one triple.
MapTriple(st, triple) ==
  LET predicate   == Or(triple.pdata, triple.plabel)
      objectLabel == triple.olabel
      objectData  == triple.odata
  IN
  IF ~Truthy(predicate) \/ objectData.t = "null" THEN st
  ELSE IF predicate.v = KeyKeywords
  THEN LET tagValue == Or(objectLabel, objectData)
       IN  IF Truthy(tagValue) /\ ~(\E i \in 1..Len(st.tags) : st.tags[i] = tagValue)
           THEN [st EXCEPT !.tags = Append(@, tagValue)]
           ELSE st
  ELSE IF predicate.v = KeySkillTags
  THEN LET value == trim(Or(objectLabel, objectData).v)
       IN  IF value # <<>> THEN [st EXCEPT !.skillTags = SetAdd(@, JStr(value))] ELSE st
  ELSE IF predicate.v \notin fieldsToInclude THEN st
  ELSE IF predicate.v \in arrayFields
  THEN LET started == IF HasKey(st.agentData, predicate.v) THEN st.agentData
                      ELSE SetKey(st.agentData, predicate.v, JArr(<<>>))
           held    == GetField(JObj(started), predicate.v).v
       IN  IF predicate.v = KeySkills
           THEN LET tags == extractSkillTagsFromTriple(triple)
                IN  [st EXCEPT !.agentData =
                       SetKey(started, KeySkills,
                              JArr(Dedupe(held \o [j \in 1..Len(tags) |-> JStr(tags[j])])))]
           ELSE LET value == Or(objectLabel, objectData)
                IN  [st EXCEPT !.agentData =
                       IF \E i \in 1..Len(held) : held[i] = value THEN started
                       ELSE SetKey(started, predicate.v, JArr(Append(held, value)))]
  ELSE IF predicate.v \in booleanFields
  THEN IF HasKey(st.agentData, predicate.v) THEN st
       ELSE [st EXCEPT !.agentData = SetKey(@, predicate.v, JBool(objectData = JStr(<<"true">>)))]
  ELSE IF HasKey(st.agentData, predicate.v) THEN st
       ELSE [st EXCEPT !.agentData = SetKey(@, predicate.v, Or(objectLabel, objectData))]

\* The loop over as_subject_triples from triple i on.
RECURSIVE MapFrom(_, _, _)
MapFrom(triples, i, st) ==
  IF i > Len(triples) THEN st
  ELSE MapFrom(triples, i + 1, MapTriple(st, triples[i]))

\* atomDetails: null, or an object whose as_subject_triples is an array of
\* triples or is missing (JNull).
AtomDetails(as_subject_triples) == [t |-> "obj", as_subject_triples |-> as_subject_triples]

\* utils.ts mapAtomDetailsToAgentData: the view, a flat record.
mapAtomDetailsToAgentData(atomDetails) ==
  IF atomDetails.t = "null" THEN <<>>
  ELSE IF ~Truthy(atomDetails.as_subject_triples) THEN <<>>
  ELSE LET st == MapFrom(atomDetails.as_subject_triples.v, 1, MapState(<<>>, <<>>, <<>>))
       IN  SetKey(SetKey(st.agentData, <<"tags">>, JArr(st.tags)),
                  <<"skillTags">>, JArr(st.skillTags))

\* ---------------------------------------------------------------- registry
\* The Intuition registry as this account sees it: a set of triples
\* <<subject, predicate, object>>.  A record {key: value} stored under a subject
\* is one triple per string value and one per element of an array value.
TriplesOf(subject, rec) ==
  UNION { IF rec[i][2].t = "arr"
          THEN { <<subject, rec[i][1], rec[i][2].v[j].v>> : j \in 1..Len(rec[i][2].v) }
          ELSE { <<subject, rec[i][1], rec[i][2].v>> }
        : i \in 1..Len(rec) }

\* The atoms (subjects, predicates, objects) a set of triples is made of.
AtomsOf(triples) == UNION { {t[1], t[2], t[3]} : t \in triples }

\* search([{ [key]: value }], [account.address]): the subjects holding the pair.
SearchSubjects(reg, key, value) == { t[1] : t \in { x \in reg : x[2] = key /\ x[3] = value } }

KeyAgentCardUrl == <<"agent_card_url">>

KeyMintTx == <<"mint_transaction_hash">>

KeywordA == <<"ipfs", Colon, "//QmRp1abVgPBgN5dSVfRsSpUWa8gUz5PhmSJMCLCSqDpvSP">>

KeywordB == <<"ipfs", Colon, "//bafkreifdd5zbyg2k26bqftkdyjox52m6yx5ncgapkbt6pu3qqcu5wsktky">>

\* ------------------------------------------------------------ HTTP responses
\* A response of the routers and of the API-key middleware: its status and the
\* keys of its JSON body; hasSuccess tells that the body has the key success.
Response(status, success, error, message, nftId, mintTransaction) ==
  [status |-> status, hasSuccess |-> TRUE, success |-> success, error |-> error,
   message |-> message, nftId |-> nftId, mintTransaction |-> mintTransaction]

\* A response of server.ts, whose body has the keys error and message only.
BareResponse(status, error, message) ==
  [Response(status, FALSE, error, message, <<>>, <<>>) EXCEPT !.hasSuccess = FALSE]

NoResponse == Response(0, FALSE, "", <<>>, <<>>, <<>>)

MsgUnknown == <<"Unknown error occurred">>

\* Mutant: the catch block answers 500 whatever the error.
AgentCatchResponseAlways500(error) ==
  Response(500, FALSE, "Sync failed",
           IF error.message # <<>> THEN error.message ELSE MsgUnknown, <<>>, <<>>)

\* routes/mother.ts POST /v1/mother/agent: the outer catch block.
AgentCatchResponse(error) ==
  LET aborted == error.name = "AbortError"
  IN  Response(IF aborted THEN 504 ELSE 500, FALSE,
               IF aborted THEN "Upstream timeout" ELSE "Sync failed",
               IF error.message # <<>> THEN error.message ELSE MsgUnknown, <<>>, <<>>)

\* --------------------------------------------- POST /v1/mother/agent: inputs
\* req.body after express.text / express.json: a raw string or a JSON value.
Bodies ==
  { [kind |-> "text", value |-> JStr(<<Space, "u1", Space>>)],
    [kind |-> "text", value |-> JStr(NotAUrl)],
    [kind |-> "json", value |-> JObj(<< <<<<"url">>, JNum(7)>> >>)],
    [kind |-> "json", value |-> JObj(<< <<<<"url">>, JStr(NotAUrl)>> >>)] }
  \cup { [kind |-> "json", value |-> JObj(<< <<<<"url">>, JStr(u)>> >>)] : u \in Urls }

\* The documents the upstream URL can serve.
DataSkills ==
  JObj(<< <<<<"name">>, JStr(<<"Alpha">>)>>,
          <<<<"provider">>, JObj(<< <<<<"organization">>, JStr(<<"Org">>)>> >>)>>,
          <<<<"skills">>, JArr(<< JObj(<< <<<<"tags">>, JArr(<<JStr(<<"x">>)>>)>> >>) >>)>> >>)

FetchedData == { DataSkills, JNum(7), JObj(<<>>), JArr(<<>>) }

\* What each URL serves when it serves JSON: u2 an empty object or an empty
\* array, every other URL the agent card or a number.
DocumentsAt(url) ==
  IF url = <<"u2">> THEN { JObj(<<>>), JArr(<<>>) } ELSE { DataSkills, JNum(7) }

ErrInvalidUrl ==
  [name |-> "TypeError", message |-> <<"Invalid URL">>, cause |-> <<>>]

ErrFetchFailed ==
  [name |-> "TypeError", message |-> <<"fetch failed">>, cause |-> <<>>]

\* What fetch(url) and response.json() can do: reject (timeout abort, network
\* failure), answer non-2xx, answer a body that is not JSON, or answer JSON.
FetchOutcomes ==
  { [kind |-> "throw", error |-> e, data |-> JNull] : e \in {ErrAbort, ErrFetchFailed} }
  \cup { [kind |-> "non2xx", error |-> NoError, data |-> JNull],
         [kind |-> "notjson", error |-> NoError, data |-> JNull] }
  \cup { [kind |-> "json", error |-> NoError, data |-> d] : d \in FetchedData }

\* How the upstream fetch of a request ended.
UpstreamOf(got) ==
  IF got.kind = "throw"
  THEN IF got.error.name = "AbortError" THEN "timeout" ELSE "rejected"
  ELSE IF got.kind = "json" /\ ~(Truthy(got.data) /\ TypeofObject(got.data)) THEN "notobject"
  ELSE got.kind

\* fetch rejects an unparsable URL before any request is made.
FetchOf(url, outcome) ==
  IF IsValidUrl(url) THEN outcome
  ELSE [kind |-> "throw", error |-> ErrInvalidUrl, data |-> JNull]

\* routes/mother.ts lines 26-53: body validation.  Yields either the response
\* that ends the request or the url to fetch.
AgentValidate(body) ==
  LET stop(resp) == [done |-> TRUE, resp |-> resp, url |-> <<>>, flat |-> <<>>, fetched |-> FALSE]
  IN
  IF body.kind = "text"
  THEN IF ~IsValidUrl(trim(body.value.v))
       THEN stop(Response(400, FALSE, "Invalid URL", <<"raw body must be a valid URL">>, <<>>, <<>>))
       ELSE [done |-> FALSE, resp |-> NoResponse, url |-> trim(body.value.v), flat |-> <<>>,
             fetched |-> FALSE]
  ELSE LET u == GetField(body.value, <<"url">>)
       IN  IF ~(u.t = "str" /\ u.v # <<>>)
           THEN stop(Response(400, FALSE, "Invalid payload", <<"expected { url: string }">>, <<>>, <<>>))
           ELSE [done |-> FALSE, resp |-> NoResponse, url |-> u.v, flat |-> <<>>, fetched |-> FALSE]

\* routes/mother.ts lines 55-111: upstream fetch, JSON checks, flattening.
\* Yields either the response that ends the request or the flatData the
\* identity resolution goes on with.
AgentFetch(url, outcome) ==
  LET stop(resp, f) == [done |-> TRUE, resp |-> resp, url |-> url, flat |-> <<>>, fetched |-> f]
      got == FetchOf(url, outcome)
  IN
  IF got.kind = "throw" THEN stop(AgentCatchResponse(got.error), FALSE)
  ELSE IF got.kind = "non2xx"
  THEN stop(Response(502, FALSE, "Upstream fetch failed", <<"Failed to fetch">>, <<>>, <<>>), TRUE)
  ELSE IF got.kind = "notjson"
  THEN stop(Response(415, FALSE, "Invalid upstream content", <<"could not parse">>, <<>>, <<>>), TRUE)
  ELSE IF ~(Truthy(got.data) /\ TypeofObject(got.data))
  THEN stop(Response(415, FALSE, "Unsupported upstream data", <<"not a JSON object">>, <<>>, <<>>), TRUE)
  ELSE LET flatData == SetKey(flattenToOneLevel(got.data, <<>>, <<>>), KeySkillTags,
                              collectSkillTagsFromData(got.data))
       IN  IF Cardinality(Keys(flatData)) = 0
           THEN stop(Response(400, FALSE, "Empty data", <<"no usable key/value pairs">>, <<>>, <<>>), TRUE)
           ELSE [done |-> FALSE, resp |-> NoResponse, url |-> url, flat |-> flatData,
                 fetched |-> TRUE]

\* ------------------------------------------------------- identity issuance
TransferEventSignature == "0xddf252ad"

\* ethers.ZeroAddress, and the checksummed address of some holder.
ZeroAddress == "0x0000000000000000000000000000000000000000"

OtherAddress == "0xA11cE00000000000000000000000000000000000"

\* The 40 hex digits of the two addresses as a log carries them (lower case).
ZeroHex == "0000000000000000000000000000000000000000"

OtherHex == "a11ce00000000000000000000000000000000000"

\* A 32-byte topic holding an address: "0x", 24 padding digits, 40 hex digits.
AddressTopic(hex) == <<"0x", "000000000000000000000000", hex>>

\* topic.slice(-40): the last 40 characters, i.e. the last chunk.
SliceLast40(topic) == topic[Len(topic)]

\* ethers.getAddress("0x" + hex): the checksummed form of the address.
getAddress(hex) ==
  CASE hex = ZeroHex -> ZeroAddress
    [] hex = OtherHex -> OtherAddress

\* A 32-byte topic holding a number: its hexadecimal digits, most significant
\* first (leading zero digits included).
HexDigits(n) == <<n \div 16, n % 16>>

\* BigInt(topic): the number the hexadecimal digits denote.
RECURSIVE BigInt(_)
BigInt(digits) ==
  IF Len(digits) = 0 THEN 0
  ELSE 16 * BigInt(SubSeq(digits, 1, Len(digits) - 1)) + digits[Len(digits)]

\* A receipt is the sequence of its logs; a log is the sequence of its topics.
TransferLog(fromHex, toHex, tokenId) ==
  <<TransferEventSignature, AddressTopic(fromHex), AddressTopic(toHex), HexDigits(tokenId)>>

\* Mutant: the from address is not looked at, any Transfer log counts as a mint.
RECURSIVE ExtractFromAnyTransfer(_, _)
ExtractFromAnyTransfer(logs, i) ==
  IF i > Len(logs) THEN JNull
  ELSE LET topics == logs[i]
       IN  IF Len(topics) = 4 /\ topics[1] = TransferEventSignature
           THEN JStr(<<ToString(BigInt(topics[4]))>>)
           ELSE ExtractFromAnyTransfer(logs, i + 1)

\* services/nft.ts extractTokenIdFromReceipt; ExtractFrom is its loop from log i
\* on.  The result is a JSON string, or JNull for null.
RECURSIVE ExtractFrom(_, _)
ExtractFrom(logs, i) ==
  IF i > Len(logs) THEN JNull
  ELSE LET topics == logs[i]
       IN  IF Len(topics) > 0 /\ topics[1] = TransferEventSignature /\ Len(topics) = 4
           THEN LET from    == getAddress(SliceLast40(topics[2]))
                    tokenId == BigInt(topics[4])
                IN  IF from = ZeroAddress
                    THEN JStr(<<ToString(tokenId)>>)
                    ELSE ExtractFrom(logs, i + 1)
           ELSE ExtractFrom(logs, i + 1)

extractTokenIdFromReceipt(receipt) == ExtractFrom(receipt, 1)

\* tx.hash of the n-th transaction the contract has seen.
TxHash(n) == <<"0xtx", ToString(n)>>

ErrReverted == [name |-> "Error", message |-> MsgReverted, cause |-> <<>>]

ConfigError(text) == [name |-> "Error", message |-> text, cause |-> <<>>]

\* What contract.register() followed by tx.wait() can do when the chain holds
\* `minted` tokens: reject (revert, RPC failure, abort), or confirm with a
\* receipt that carries the mint event of the next token, no log at all, or only
\* a transfer between holders.
RegisterOutcomes(minted) ==
  { [kind |-> "throw", error |-> e, receipt |-> <<>>] : e \in {ErrReverted, ErrAbort} }
  \cup { [kind |-> "receipt", error |-> NoError, receipt |-> r] :
           r \in { <<TransferLog(ZeroHex, OtherHex, minted + 1)>>,
                   <<>>,
                   <<TransferLog(OtherHex, OtherHex, minted + 1)>> } }

MintResult(ok, error, nftId, transactionHash, registerCalls) ==
  [ok |-> ok, error |-> error, nftId |-> nftId, transactionHash |-> transactionHash,
   registerCalls |-> registerCalls]

\* Mutant: a receipt without a mint event is answered by a second register().
mintAgentIdentityRetry(environment, txs, reg) ==
  IF reg.kind = "throw" THEN MintResult(FALSE, reg.error, <<>>, <<>>, 2)
  ELSE LET tokenId == extractTokenIdFromReceipt(reg.receipt)
       IN  IF ~Truthy(tokenId)
           THEN MintResult(FALSE, ConfigError(<<"Failed to extract token ID">>), <<>>, <<>>, 2)
           ELSE MintResult(TRUE, NoError,
                  formatNftIdentifier(ChainIdStr, ContractAddress, tokenId.v), TxHash(txs + 1), 1)

\* services/nft.ts mintAgentIdentity, given process.env, the number of
\* transactions the chain has seen, and what register()/wait() does.
mintAgentIdentity(environment, txs, reg) ==
  LET contractAddress == environment.AGENT_IDENTITY_CONTRACT_ADDRESS
      privateKey      == environment.SIGNER
  IN
  IF contractAddress = <<>>
  THEN MintResult(FALSE, ConfigError(<<"AGENT_IDENTITY_CONTRACT_ADDRESS not set">>), <<>>, <<>>, 0)
  ELSE IF ~isAddress(contractAddress)
  THEN MintResult(FALSE, ConfigError(<<"Invalid contract address">>), <<>>, <<>>, 0)
  ELSE IF privateKey = <<>>
  THEN MintResult(FALSE, ConfigError(<<"SIGNER not set">>), <<>>, <<>>, 0)
  ELSE IF reg.kind = "throw"
  THEN MintResult(FALSE, reg.error, <<>>, <<>>, 1)
  ELSE LET tokenId == extractTokenIdFromReceipt(reg.receipt)
       IN  IF ~Truthy(tokenId)
           THEN MintResult(FALSE, ConfigError(<<"Failed to extract token ID">>), <<>>, <<>>, 1)
           ELSE MintResult(TRUE, NoError,
                  formatNftIdentifier(ChainIdStr, contractAddress, tokenId.v), TxHash(txs + 1), 1)

\* ------------------------------------------------------------------ sync
\* What sync(config, { [subject]: record }) can do on a registry holding reg:
\* return after creating the missing triples; reject with an already-exists
\* revert (only when some atom of the data is already present; the revert
\* creates nothing); or reject for another reason (network, abort), creating
\* nothing.
SyncOutcomes(reg, triples) ==
  { [kind |-> "ok", error |-> NoError] }
  \cup { [kind |-> "throw", error |-> e] : e \in {ErrNetwork, ErrAbort} }
  \cup ( IF AtomsOf(triples) \cap AtomsOf(reg) # {}
         THEN { [kind |-> "throw", error |-> e] : e \in {ErrAtomExists, ErrAtomExistsCause} }
         ELSE {} )

\* Every outcome sync() has on some registry.
AllSyncOutcomes ==
  { [kind |-> "ok", error |-> NoError] }
  \cup { [kind |-> "throw", error |-> e] :
           e \in {ErrNetwork, ErrAbort, ErrAtomExists, ErrAtomExistsCause} }

SyncEffect(reg, triples, outcome) ==
  IF outcome.kind = "ok" THEN reg \cup triples ELSE reg

\* -------------------------------------------------------------------- state
VARIABLES
  env,        \* process.env, fixed when the server starts
  registry,   \* the triples the Intuition registry holds for this account
  txs,        \* number of register() transactions the identity contract mined
  tokens,     \* the token ids the identity contract has minted
  reqs,       \* the HTTP requests received so far, in order of arrival
  call        \* the last direct call of a library function: name, argument, result

vars == <<env, registry, txs, tokens, reqs, call>>

\* No library function has been called directly.
NoCall == [fn |-> "none", arg |-> <<>>, out |-> <<>>]

\* One request: where its handler stands (pc), what it has computed, what it
\* answered, and the calls it has made to the external services.  `after` is the
\* set of requests already answered when it arrived; `matches` is what the
\* registry held for its url when it looked, `found` the first subject the
\* search returned, `lookedAfter` the requests answered by then; `identical`
\* tells that every triple it submitted was already stored, `added` is what its
\* sync stored.
NewRequest(route, apiKey, input, after) ==
  [ route |-> route, apiKey |-> apiKey, input |-> input, pc |-> "start", after |-> after,
    handled |-> FALSE, parsed |-> TRUE,
    url |-> <<>>, flat |-> <<>>, fetched |-> FALSE, upstream |-> "none", pairs |-> 0,
    lookup |-> "none", found |-> <<>>, matches |-> {}, lookedAfter |-> {},
    nftId |-> <<>>, tx |-> <<>>, mintCalls |-> 0, mintError |-> NoError,
    registerCalls |-> 0,
    syncCalls |-> 0, syncOutcome |-> "none", syncError |-> NoError,
    submitted |-> {}, identical |-> FALSE, added |-> {},
    resp |-> NoResponse ]

Done(i) == reqs[i].pc = "done"

DoneSet == { i \in 1..Len(reqs) : Done(i) }

Init ==
  /\ env \in EnvChoices
  /\ registry = {}
  /\ txs = 0
  /\ tokens = {}
  /\ reqs = <<>>
  /\ call = NoCall

SyncOk == [kind |-> "ok", error |-> NoError]

\* setup.ts throws while the module loads when SIGNER is unset or not 0x-prefixed:
\* only a process with a signer serves requests or runs a script.
Started == env.SIGNER # <<>>

\* ------------------------------------------------------- API-key middleware
\* String.prototype.split(","): the parts between the commas.
RECURSIVE splitComma(_)
splitComma(s) ==
  IF \E i \in 1..Len(s) : s[i] = Comma
  THEN LET i == CHOOSE j \in 1..Len(s) : s[j] = Comma /\ \A h \in 1..(j - 1) : s[h] # Comma
       IN  <<SubSeq(s, 1, i - 1)>> \o splitComma(SubSeq(s, i + 1, Len(s)))
  ELSE <<s>>

\* process.env[`API_KEY_${keyIndex}`]
ApiKeyN(environment, keyIndex) ==
  IF keyIndex = 1 THEN environment.API_KEY_1
  ELSE IF keyIndex = 2 THEN environment.API_KEY_2
  ELSE <<>>

\* The while loop of getAllowedApiKeys: the numbered keys from keyIndex up to
\* the first one that is unset.
RECURSIVE NumberedKeys(_, _)
NumberedKeys(environment, keyIndex) ==
  IF ApiKeyN(environment, keyIndex) = <<>> THEN <<>>
  ELSE <<ApiKeyN(environment, keyIndex)>> \o NumberedKeys(environment, keyIndex + 1)

\* middleware getAllowedApiKeys: the secrets, without repeats.
getAllowedApiKeys(environment) ==
  LET single == IF environment.API_KEY # <<>> THEN <<environment.API_KEY>> ELSE <<>>
      parts == splitComma(environment.API_KEYS)
      commaSeparatedKeys ==
        IF environment.API_KEYS = <<>> THEN <<>>
        ELSE SelectSeq([j \in 1..Len(parts) |-> trim(parts[j])], LAMBDA key : Len(key) > 0)
  IN  Dedupe(single \o NumberedKeys(environment, 1) \o commaSeparatedKeys)

MsgAuthNotConfigured == <<"API authentication not configured">>

MsgApiKeyRequired == <<"API key is required. Please provide 'x-api-key' header">>

MsgInvalidApiKey == <<"Invalid API key">>

Verdict(next, resp) == [next |-> next, resp |-> resp]

\* Mutant: any header that is present passes.
validateApiKeyAnyHeader(environment, apiKey) ==
  LET allowedApiKeys == getAllowedApiKeys(environment)
  IN  IF Len(allowedApiKeys) = 0
      THEN Verdict(FALSE, Response(500, FALSE, "Server configuration error",
                                   MsgAuthNotConfigured, <<>>, <<>>))
      ELSE IF apiKey = <<>>
      THEN Verdict(FALSE, Response(401, FALSE, "Unauthorized", MsgApiKeyRequired, <<>>, <<>>))
      ELSE Verdict(TRUE, NoResponse)

\* middleware validateApiKey: next() is called, or the response is sent.
validateApiKey(environment, apiKey) ==
  LET allowedApiKeys == getAllowedApiKeys(environment)
  IN  IF Len(allowedApiKeys) = 0
      THEN Verdict(FALSE, Response(500, FALSE, "Server configuration error",
                                   MsgAuthNotConfigured, <<>>, <<>>))
      ELSE IF apiKey = <<>>
      THEN Verdict(FALSE, Response(401, FALSE, "Unauthorized", MsgApiKeyRequired, <<>>, <<>>))
      ELSE IF ~(\E j \in 1..Len(allowedApiKeys) : allowedApiKeys[j] = apiKey)
      THEN Verdict(FALSE, Response(403, FALSE, "Forbidden", MsgInvalidApiKey, <<>>, <<>>))
      ELSE Verdict(TRUE, NoResponse)

\* A route registered with validateApiKey before its handler: the request r
\* gets the middleware's response, or what the handler makes of it.
Protected(environment, r, handled) ==
  LET auth == validateApiKey(environment, r.apiKey)
  IN  IF auth.next THEN handled ELSE [r EXCEPT !.pc = "done", !.resp = auth.resp]

\* -------------------------------------------- POST /v1/mother/agent: steps
\* Some order of the elements of a finite set.
RECURSIVE SeqOfSet(_)
SeqOfSet(S) ==
  IF S = {} THEN <<>> ELSE LET x == CHOOSE y \in S : TRUE IN <<x>> \o SeqOfSet(S \ {x})

\* What the awaited search() of checkUrlExists yields: a rejection, or the
\* result object, of which the code reads the keys in the object's own order.
SearchResults(reg, url) ==
  LET subjects == SearchSubjects(reg, KeyAgentCardUrl, url)
  IN  { [threw |-> TRUE, keys |-> <<>>] }
      \cup ( IF subjects = {} THEN { [threw |-> FALSE, keys |-> <<>>] }
             ELSE { [threw |-> FALSE, keys |-> <<first>> \o SeqOfSet(subjects \ {first})] :
                      first \in subjects } )

UrlCheck(exists, nftId) == [exists |-> exists, nftId |-> nftId]

\* services/nft.ts checkUrlExists, given what search() did.
checkUrlExists(result) ==
  IF result.threw THEN UrlCheck(FALSE, <<>>)
  ELSE IF Len(result.keys) = 0 \/ result.keys[1] = <<>> THEN UrlCheck(FALSE, <<>>)
  ELSE IF isNftIdentifier(result.keys[1]) THEN UrlCheck(TRUE, result.keys[1])
  ELSE UrlCheck(FALSE, <<>>)

\* routes/mother.ts lines 26-111 on a new request.
AgentReceiveStep(r, outcome) ==
  LET v == AgentValidate(r.input)
      f == AgentFetch(v.url, outcome)
  IN  IF v.done THEN [r EXCEPT !.pc = "done", !.resp = v.resp]
      ELSE IF f.done
      THEN [r EXCEPT !.pc = "done", !.url = v.url, !.fetched = f.fetched,
                     !.upstream = UpstreamOf(FetchOf(v.url, outcome)), !.resp = f.resp]
      ELSE [r EXCEPT !.pc = "lookup", !.url = v.url, !.fetched = TRUE,
                     !.upstream = UpstreamOf(FetchOf(v.url, outcome)),
                     !.pairs = Len(flattenToOneLevel(FetchOf(v.url, outcome).data, <<>>, <<>>)),
                     !.flat = f.flat]

\* routes/mother.ts lines 113-119: the registry lookup and the reuse branch.
AgentLookupStep(r, reg, result) ==
  LET urlCheck == checkUrlExists(result)
      seen == [r EXCEPT !.lookup = IF result.threw THEN "threw"
                                   ELSE IF Len(result.keys) = 0 THEN "empty" ELSE "found",
                        !.found = IF Len(result.keys) > 0 THEN result.keys[1] ELSE <<>>,
                        !.matches = SearchSubjects(reg, KeyAgentCardUrl, r.url)]
  IN  IF urlCheck.exists /\ urlCheck.nftId # <<>>
      THEN [seen EXCEPT !.nftId = urlCheck.nftId, !.pc = "sync"]
      ELSE [seen EXCEPT !.pc = "mint"]

\* routes/mother.ts lines 120-126 (and the catch of 168-177 when the mint throws).
AgentMintStep(r, environment, mined, reg) ==
  LET mintResult == mintAgentIdentity(environment, mined, reg)
      called == [r EXCEPT !.mintCalls = @ + 1, !.mintError = mintResult.error,
                          !.registerCalls = @ + mintResult.registerCalls]
  IN  IF mintResult.ok
      THEN [called EXCEPT !.nftId = mintResult.nftId, !.tx = mintResult.transactionHash,
                          !.pc = "sync"]
      ELSE [called EXCEPT !.pc = "done", !.resp = AgentCatchResponse(mintResult.error)]

\* routes/mother.ts lines 128-139: the record synced under the nftId.
AgentRecord(flat, url, mintTransactionHash) ==
  LET normalized == normalizeFlatValues(flat)
      withUrl    == SetKey(normalized, KeyAgentCardUrl, JStr(url))
      withKw     == SetKey(withUrl, KeyKeywords, JArr(<<JStr(KeywordA), JStr(KeywordB)>>))
  IN  IF mintTransactionHash # <<>>
      THEN SetKey(withKw, KeyMintTx, JStr(mintTransactionHash))
      ELSE withKw

MsgSynced == <<"Agent data fetched and synced">>

MsgNoOp == <<"Idempotent no-op: data already exists">>

\* Mutant: an already-exists rejection is rethrown like any other error.
AgentSyncResponseRethrow(outcome, nftId, mintTransactionHash) ==
  IF outcome.kind = "ok"
  THEN Response(200, TRUE, "", MsgSynced, nftId, mintTransactionHash)
  ELSE AgentCatchResponse(outcome.error)

\* Mutant: every rejection of sync is taken for an already-exists no-op.
AgentSyncResponseSwallowAll(outcome, nftId, mintTransactionHash) ==
  IF outcome.kind = "ok"
  THEN Response(200, TRUE, "", MsgSynced, nftId, mintTransactionHash)
  ELSE Response(200, TRUE, "", MsgNoOp, nftId, <<>>)

\* routes/mother.ts lines 145-177: the answer to what sync() did.
AgentSyncResponse(outcome, nftId, mintTransactionHash) ==
  IF outcome.kind = "ok"
  THEN Response(200, TRUE, "", MsgSynced, nftId, mintTransactionHash)
  ELSE IF isAlreadyExistsError(outcome.error)
  THEN Response(200, TRUE, "", MsgNoOp, nftId, <<>>)
  ELSE AgentCatchResponse(outcome.error)

\* Mutant: a failed sync is tried a second time before the request answers.
AgentSyncStepRetry(r, reg, outcome) ==
  LET triples == TriplesOf(r.nftId, AgentRecord(r.flat, r.url, r.tx))
      called == [r EXCEPT !.syncCalls = @ + 1,
                          !.syncOutcome = outcome.kind, !.syncError = outcome.error,
                          !.submitted = triples, !.identical = triples \subseteq reg,
                          !.added = SyncEffect(reg, triples, outcome) \ reg]
  IN  IF outcome.kind = "throw" /\ r.syncCalls = 0 THEN called
      ELSE [called EXCEPT !.pc = "done",
                          !.resp = AgentSyncResponse(outcome, r.nftId, r.tx)]

\* routes/mother.ts lines 128-177: build the record, call sync once, answer.
AgentSyncStep(r, reg, outcome) ==
  LET triples == TriplesOf(r.nftId, AgentRecord(r.flat, r.url, r.tx))
  IN  [r EXCEPT !.syncCalls = @ + 1,
                !.syncOutcome = outcome.kind, !.syncError = outcome.error,
                !.submitted = triples, !.identical = triples \subseteq reg,
                !.added = SyncEffect(reg, triples, outcome) \ reg,
                !.pc = "done",
                !.resp = AgentSyncResponse(outcome, r.nftId, r.tx)]

AgentReceive(apiKey, body, outcome) ==
  /\ Started
  /\ Len(reqs) < MaxReq
  /\ outcome.kind = "json" => outcome.data \in DocumentsAt(AgentValidate(body).url)
  /\ LET r == NewRequest("agent", apiKey, body, DoneSet)
     IN  reqs' = Append(reqs, Protected(env, r,
                                AgentReceiveStep([r EXCEPT !.handled = TRUE], outcome)))
  /\ UNCHANGED <<env, registry, txs, tokens, call>>

AgentLookup(i, result) ==
  /\ reqs[i].route = "agent" /\ reqs[i].pc = "lookup"
  /\ result \in SearchResults(registry, reqs[i].url)
  /\ reqs' = [reqs EXCEPT ![i] = [AgentLookupStep(reqs[i], registry, result)
                                    EXCEPT !.lookedAfter = DoneSet]]
  /\ UNCHANGED <<env, registry, txs, tokens, call>>

\* The identity contract mines a register() transaction that was submitted and
\* did not reject; it mints the next token when the receipt carries a mint event.
AgentMint(i, reg) ==
  /\ reqs[i].route = "agent" /\ reqs[i].pc = "mint"
  /\ reg \in RegisterOutcomes(Cardinality(tokens))
  /\ LET after == AgentMintStep(reqs[i], env, txs, reg)
         submitted == after.registerCalls > reqs[i].registerCalls
     IN  /\ reqs' = [reqs EXCEPT ![i] = after]
         /\ txs' = IF submitted /\ reg.kind = "receipt" THEN txs + 1 ELSE txs
         /\ tokens' = IF submitted /\ reg.kind = "receipt"
                         /\ Truthy(extractTokenIdFromReceipt(reg.receipt))
                      THEN tokens \cup {Cardinality(tokens) + 1}
                      ELSE tokens
  /\ UNCHANGED <<env, registry, call>>

AgentSync(i, outcome) ==
  /\ reqs[i].route = "agent" /\ reqs[i].pc = "sync"
  /\ LET triples == TriplesOf(reqs[i].nftId, AgentRecord(reqs[i].flat, reqs[i].url, reqs[i].tx))
     IN  /\ outcome \in SyncOutcomes(registry, triples)
         /\ registry' = SyncEffect(registry, triples, outcome)
  /\ reqs' = [reqs EXCEPT ![i] = AgentSyncStep(reqs[i], registry, outcome)]
  /\ UNCHANGED <<env, txs, tokens, call>>

\* ------------------------------------------- POST /v1/intuition/events
Field(k, v) == << <<k>>, v >>

QuizEvent(userAddress) ==
  JObj(<< Field("type", JStr(<<"quiz_completed">>)),
          Field("userAddress", JStr(userAddress)),
          Field("communityId", JStr(<<"c1">>)),
          Field("metadata", JObj(<< Field("quizId", JStr(<<"q1">>)),
                                    Field("completedAt", JStr(<<"t1">>)) >>)),
          Field("version", JStr(<<"1">>)) >>)

UserAddress == <<"0", "x", "A", "b">>

\* A quiz_completed event whose version is a number.
QuizEventNumberVersion ==
  JObj(<< Field("type", JStr(<<"quiz_completed">>)),
          Field("userAddress", JStr(UserAddress)),
          Field("communityId", JStr(<<"c1">>)),
          Field("metadata", JObj(<< Field("quizId", JStr(<<"q1">>)),
                                    Field("completedAt", JStr(<<"t1">>)) >>)),
          Field("version", JNum(1)) >>)

\* req.body after express.json: a valid event, one whose version is a number,
\* one without most fields, one of an unknown type, an empty object.
Events ==
  { QuizEvent(UserAddress),
    QuizEventNumberVersion,
    JObj(<< Field("type", JStr(<<"quiz_completed">>)),
            Field("userAddress", JStr(UserAddress)) >>),
    JObj(<< Field("type", JStr(<<"poll_closed">>)) >>),
    JObj(<<>>) }

\* event.field for a body that is an object or an array.
Prop(x, k) == IF x.t = "obj" THEN GetField(x, <<k>>) ELSE JNull

\* types/events.ts isQuizCompletedEvent.
isQuizCompletedEvent(event) ==
  /\ Truthy(event)
  /\ TypeofObject(event)
  /\ Prop(event, "type") = JStr(<<"quiz_completed">>)
  /\ Prop(event, "userAddress").t = "str"
  /\ Prop(event, "communityId").t = "str"
  /\ Truthy(Prop(event, "metadata"))
  /\ Prop(Prop(event, "metadata"), "quizId").t = "str"
  /\ Prop(Prop(event, "metadata"), "completedAt").t = "str"
  /\ Prop(event, "version").t = "str"

\* types/events.ts validateEvent.
validateEvent(event) ==
  IF ~Truthy(event) \/ ~TypeofObject(event)
  THEN [valid |-> FALSE, error |-> <<"Event must be an object">>]
  ELSE IF ~Truthy(Prop(event, "type"))
  THEN [valid |-> FALSE, error |-> <<"Missing 'type' field">>]
  ELSE IF Prop(event, "type") = JStr(<<"quiz_completed">>)
  THEN IF ~isQuizCompletedEvent(event)
       THEN [valid |-> FALSE, error |-> <<"Invalid quiz_completed event structure">>]
       ELSE [valid |-> TRUE, error |-> <<>>]
  ELSE [valid |-> FALSE, error |-> <<"Unknown event type">>]

\* routes/events.ts handleQuizCompletedEvent: the syncData it builds, as triples.
QuizSyncData(event) ==
  LET did == <<"did", Colon, "eth", Colon>> \o toLowerCase(Prop(event, "userAddress").v)
  IN  TriplesOf(did,
        << Field("type", JStr(<<"quiz_completion">>)),
           Field("user_address", Prop(event, "userAddress")),
           Field("community_id", Prop(event, "communityId")),
           Field("quiz_id", Prop(Prop(event, "metadata"), "quizId")),
           Field("completed_at", Prop(Prop(event, "metadata"), "completedAt")),
           Field("event_version", Prop(event, "version")) >>)

\* Mutant: the earlier revision of the handler, which rethrows every sync error.
handleQuizCompletedEventRethrow(outcome) ==
  IF outcome.kind = "ok" THEN NoError ELSE outcome.error

\* routes/events.ts handleQuizCompletedEvent, given what sync() did: the error
\* it throws to the route handler, NoError when it returns.
handleQuizCompletedEvent(outcome) ==
  IF outcome.kind = "ok" THEN NoError
  ELSE IF isAlreadyExistsError(outcome.error) THEN NoError
  ELSE outcome.error

MsgProcessed == <<"Event 'quiz_completed' received and processed">>

\* Mutant: the handler counts a sync call for a body it then answers 400.
EventsStepSyncBeforeValidation(r, reg, outcome) ==
  LET event == r.input.value
      validation == validateEvent(event)
      triples == QuizSyncData(event)
      thrown == handleQuizCompletedEvent(outcome)
  IN  IF ~validation.valid
      THEN [r EXCEPT !.pc = "done", !.syncCalls = @ + 1,
                     !.resp = Response(400, FALSE, "Invalid event structure",
                                       validation.error, <<>>, <<>>)]
      ELSE [r EXCEPT !.pc = "done", !.syncCalls = @ + 1,
                     !.syncOutcome = outcome.kind, !.syncError = outcome.error,
                     !.submitted = triples, !.identical = triples \subseteq reg,
                     !.added = SyncEffect(reg, triples, outcome) \ reg,
                     !.resp = IF thrown = NoError
                              THEN Response(200, TRUE, "", MsgProcessed, <<>>, <<>>)
                              ELSE Response(500, FALSE, "Webhook processing failed",
                                     IF thrown.message # <<>> THEN thrown.message
                                     ELSE MsgUnknown, <<>>, <<>>)]

\* routes/events.ts POST /v1/intuition/events on a new request.
EventsStep(r, reg, outcome) ==
  LET event == r.input.value
      validation == validateEvent(event)
      triples == QuizSyncData(event)
      thrown == handleQuizCompletedEvent(outcome)
  IN  IF ~validation.valid
      THEN [r EXCEPT !.pc = "done",
                     !.resp = Response(400, FALSE, "Invalid event structure",
                                       validation.error, <<>>, <<>>)]
      ELSE [r EXCEPT !.pc = "done", !.syncCalls = @ + 1,
                     !.syncOutcome = outcome.kind, !.syncError = outcome.error,
                     !.submitted = triples, !.identical = triples \subseteq reg,
                     !.added = SyncEffect(reg, triples, outcome) \ reg,
                     !.resp = IF thrown = NoError
                              THEN Response(200, TRUE, "", MsgProcessed, <<>>, <<>>)
                              ELSE Response(500, FALSE, "Webhook processing failed",
                                     IF thrown.message # <<>> THEN thrown.message
                                     ELSE MsgUnknown, <<>>, <<>>)]

EventsPost(apiKey, event, outcome) ==
  /\ Started
  /\ Len(reqs) < MaxReq
  /\ IF validateApiKey(env, apiKey).next /\ validateEvent(event).valid
     THEN /\ outcome \in SyncOutcomes(registry, QuizSyncData(event))
          /\ registry' = SyncEffect(registry, QuizSyncData(event), outcome)
     ELSE /\ outcome = SyncOk
          /\ registry' = registry
  /\ LET r == NewRequest("events", apiKey, [kind |-> "json", value |-> event], DoneSet)
     IN  reqs' = Append(reqs, Protected(env, r,
                                EventsStep([r EXCEPT !.handled = TRUE], registry, outcome)))
  /\ UNCHANGED <<env, txs, tokens, call>>

\* ------------------------------------------- server.ts: the two fallbacks
MsgRouteNotFound == <<"Route not found">>

MsgBodyParse == <<"Unexpected token in JSON">>

\* server.ts 404 handler: a request no router serves.
NotFound ==
  /\ Started
  /\ Len(reqs) < MaxReq
  /\ reqs' = Append(reqs, [NewRequest("other", <<>>, [kind |-> "json", value |-> JObj(<<>>)], DoneSet)
                             EXCEPT !.pc = "done",
                                    !.resp = BareResponse(404, "Not found", MsgRouteNotFound)])
  /\ UNCHANGED <<env, registry, txs, tokens, call>>

\* The routes that take a JSON body.
JsonRoutes == { "agent", "events" }

\* server.ts error handler: express.json() passes on the error of a body that
\* is not JSON, before any router sees the request.
MalformedBody(route) ==
  /\ Started
  /\ Len(reqs) < MaxReq
  /\ reqs' = Append(reqs, [NewRequest(route, <<>>, [kind |-> "json", value |-> JNull], DoneSet)
                             EXCEPT !.pc = "done", !.parsed = FALSE,
                                    !.resp = BareResponse(500, "Internal server error",
                                                          MsgBodyParse)])
  /\ UNCHANGED <<env, registry, txs, tokens, call>>

\* ------------------------------------------------------- sync.ts (script)
\* The script syncs the literal it carries.  The literal is sample data the
\* operator edits: its subject "can be any identifier, for example - ethereum
\* address", and its keys are free.  Two editions are modelled: the one in the
\* file, and an agent card filed under an address.
SampleSubject == <<"did", Colon, "example", Colon, "789test">>

SampleData ==
  << Field("type", JStr(<<"agent">>)),
     << KeyKeywords, JStr(KeywordA) >>,
     Field("name", JStr(<<"Claude">>)),
     Field("capabilities", JArr(<<JStr(<<"web_search">>)>>)) >>

AddressSubject == <<"0xA11CE">>

AddressData ==
  << Field("type", JStr(<<"agent">>)),
     << KeyAgentCardUrl, JStr(<<"u1">>) >> >>

ScriptEditions ==
  { [subject |-> SampleSubject, data |-> SampleData],
    [subject |-> AddressSubject, data |-> AddressData] }

ScriptSync(edition) ==
  /\ Started
  /\ registry' = registry \cup TriplesOf(edition.subject, edition.data)
  /\ registry' # registry
  /\ UNCHANGED <<env, txs, tokens, reqs, call>>

\* ------------------------------------------------------------------- system
Next ==
  \/ \E apiKey \in Headers, body \in Bodies, outcome \in FetchOutcomes :
       AgentReceive(apiKey, body, outcome)
  \/ \E i \in 1..Len(reqs) : \E result \in SearchResults(registry, reqs[i].url) :
       AgentLookup(i, result)
  \/ \E i \in 1..Len(reqs) : \E reg \in RegisterOutcomes(Cardinality(tokens)) :
       AgentMint(i, reg)
  \/ \E i \in 1..Len(reqs) :
       \E outcome \in AllSyncOutcomes :
         AgentSync(i, outcome)
  \/ \E apiKey \in Headers, event \in Events :
       \E outcome \in AllSyncOutcomes :
         EventsPost(apiKey, event, outcome)
  \/ \E edition \in ScriptEditions : ScriptSync(edition)
  \/ NotFound
  \/ \E route \in JsonRoutes : MalformedBody(route)

Spec == Init /\ [][Next]_vars

\* ------------------------------------------------- library functions, alone
\* The exported functions of services/nft.ts and utils.ts called directly, on
\* arguments drawn from bounded sets, in a process with the complete
\* configuration and no request.
CompleteEnv == Env(ContractAddress, <<"https://rpc">>, <<"0xKEY">>)

Called(fn, arg, out) ==
  /\ call' = [fn |-> fn, arg |-> arg, out |-> out]
  /\ UNCHANGED <<env, registry, txs, tokens, reqs>>

PureInit ==
  /\ env = CompleteEnv
  /\ registry = {}
  /\ txs = 0
  /\ tokens = {}
  /\ reqs = <<>>
  /\ call = NoCall

\* Longest receipt, in logs.
MaxLogs == 2

\* The logs a receipt can carry: mints of tokens 1 and 26, a transfer between
\* holders, an ERC-20 Transfer (three topics) from the zero address, and an
\* event of another signature with four topics.
Logs ==
  { TransferLog(ZeroHex, OtherHex, 1),
    TransferLog(ZeroHex, OtherHex, 26),
    TransferLog(OtherHex, OtherHex, 3),
    <<TransferEventSignature, AddressTopic(ZeroHex), AddressTopic(OtherHex)>>,
    <<"0x8c5be1e5", AddressTopic(ZeroHex), AddressTopic(OtherHex), HexDigits(4)>> }

Receipts == UNION { [1..n -> Logs] : n \in 0..MaxLogs }

CallExtractTokenId(receipt) ==
  Called("extractTokenIdFromReceipt", receipt, extractTokenIdFromReceipt(receipt))

CallMintAgentIdentity(receipt) ==
  Called("mintAgentIdentity", receipt,
         mintAgentIdentity(env, 0, [kind |-> "receipt", error |-> NoError, receipt |-> receipt]))

\* JSON values that are not plain objects: primitives, null, arrays (empty,
\* holding a number, an object and null, holding an array).
Primitives == { JNum(1), JStr(<<"s">>), JNull, JBool(FALSE) }

Arrays ==
  { JArr(<<>>),
    JArr(<<JNum(1), JObj(<< Field("x", JNum(1)) >>), JNull>>),
    JArr(<<JArr(<<JNum(2)>>)>>) }

\* Values of the entries of a top-level object: the above, the empty object,
\* objects of one entry, and an object nested twice.
EntryValues ==
  Primitives \cup Arrays
  \cup { JObj(<<>>), JObj(<< Field("b", JObj(<< Field("c", JNum(1)) >>)) >>) }
  \cup { JObj(<< Field(k, v) >>) : k \in {"b", "c"}, v \in Primitives \cup Arrays }

\* A key that contains the joiner: the text "a:b".
KeyAB == <<"a", Colon, "b">>

\* The arguments of flattenToOneLevel: values that are not plain objects, and
\* objects of up to two entries, among them objects in which the literal key
\* "a:b" stands beside the nested path a -> b.
FlattenInputs ==
  Primitives \cup Arrays
  \cup { JObj(<<>>) }
  \cup { JObj(<< Field("a", v) >>) : v \in EntryValues }
  \cup { JObj(<< Field("a", v), <<KeyAB, w>> >>) : v \in EntryValues, w \in Primitives }
  \cup { JObj(<< <<KeyAB, w>>, Field("a", v) >>) : v \in EntryValues, w \in Primitives }

\* The values a flat record can hold, and the flat records of up to two keys.
FlatValues ==
  Primitives
  \cup { JNum(42), JBool(TRUE), JArr(<<>>), JObj(<< Field("x", JNum(1)) >>),
         JArr(<<JNum(42), JNull, JStr(<<"s">>), JBool(TRUE), JObj(<< Field("x", JNum(1)) >>)>>) }

FlatRecords ==
  { <<>> }
  \cup { << Field("a", v) >> : v \in FlatValues }
  \cup { << Field("a", v), Field("b", w) >> : v \in FlatValues, w \in FlatValues }

CallNormalize(flat) ==
  Called("normalizeFlatValues", flat, normalizeFlatValues(flat))

CallNormalizeRoute(flat) ==
  Called("normalizeFlatValues (routes/events.ts)", flat, normalizeFlatValuesRoute(flat))

\* The entries a skills array can hold: skill objects, their JSON texts, a
\* text that is not JSON, the texts of null and of a number, null, a number,
\* and an object whose tags is not an array.
SkillEntries ==
  SkillObjects
  \cup { JStr(JsonStringify(x)) : x \in SkillObjects }
  \cup { JStr(<<"{not json">>), JStr(<<"null">>), JStr(<<"7">>), JNull, JNum(7),
         JObj(<< Field("tags", JStr(<<"x">>)) >>) }

\* Longest skills array.
MaxSkills == 2

\* The payloads of collectSkillTagsFromData: values that are not objects,
\* objects without skills or whose skills is not an array, and objects whose
\* skills is an array of up to MaxSkills entries.
SkillPayloads ==
  { JNull, JNum(7), JStr(<<"s">>), JArr(<<JObj(<< Field("skills", JArr(<<>>)) >>)>>),
    JObj(<<>>), JObj(<< Field("skills", JStr(<<"x">>)) >>),
    JObj(<< Field("skills", JObj(<< Field("tags", JArr(<<JStr(<<"x">>)>>)) >>)) >>) }
  \cup { JObj(<< Field("skills", JArr(entries)) >>) :
           entries \in UNION { [1..n -> SkillEntries] : n \in 0..MaxSkills } }

CallCollectSkillTags(data) ==
  Called("collectSkillTagsFromData", data, collectSkillTagsFromData(data))

CallFlatten(input) ==
  Called("flattenToOneLevel", input, flattenToOneLevel(input, <<>>, <<>>))

\* The triples an atom of the model can be the subject of: a name with a label
\* and raw data, names without a label, with an empty label and without raw
\* data, a description whose predicate has a label only, a triple without a
\* predicate, keywords, skill tags, a predicate outside every list, the boolean
\* field, an authentication scheme, and skills as JSON and as broken text.
TripleChoices ==
  { Triple(JStr(<<"name">>), JStr(<<"name">>), JStr(<<"Alpha">>), JStr(<<"alpha-data">>)),
    Triple(JStr(<<"name">>), JNull, JNull, JStr(<<"Beta">>)),
    Triple(JStr(<<"name">>), JNull, JStr(<<>>), JStr(<<"Gamma">>)),
    Triple(JStr(<<"name">>), JNull, JStr(<<"Delta">>), JNull),
    Triple(JNull, JStr(<<"description">>), JStr(<<"About">>), JStr(<<"about-data">>)),
    Triple(JNull, JNull, JStr(<<"Lost">>), JStr(<<"lost-data">>)),
    Triple(JStr(KeyKeywords), JNull, JStr(<<"defi">>), JStr(<<"defi">>)),
    Triple(JStr(KeySkillTags), JNull, JNull, JStr(<<Space, "x", Space>>)),
    Triple(JStr(<<"owner">>), JNull, JStr(<<"0xabc">>), JStr(<<"0xabc">>)),
    Triple(JStr(KeyStateTransitionHistory), JNull, JNull, JStr(<<"true">>)),
    Triple(JStr(KeyAuthenticationSchemes), JNull, JStr(<<"bearer">>), JStr(<<"bearer">>)),
    Triple(JStr(KeySkills), JNull, JNull,
           JStr(JsonStringify(JObj(<< <<<<"id">>, JStr(<<"s1">>)>>,
                                      <<<<"tags">>, JArr(<<JStr(<<"x">>), JStr(<<Space, "y", Space>>)>>)>> >>)))),
    Triple(JStr(KeySkills), JNull, JNull, JStr(<<"{not json">>)) }

\* Longest as_subject_triples.
MaxTriples == 2

\* The arguments of mapAtomDetailsToAgentData: null, details without
\* as_subject_triples, and details with up to MaxTriples triples.
AtomDetailsInputs ==
  { JNull, AtomDetails(JNull) }
  \cup { AtomDetails(JArr(triples)) :
           triples \in UNION { [1..n -> TripleChoices] : n \in 0..MaxTriples } }

CallMapAtomDetails(atomDetails) ==
  Called("mapAtomDetailsToAgentData", atomDetails, mapAtomDetailsToAgentData(atomDetails))

\* ------------------------------------------------ GET /v1/mother/agents
DigitChars == <<"0", "1", "2", "3", "4", "5", "6", "7", "8", "9">>

IsDigit(c) == \E d \in 1..10 : DigitChars[d] = c

DigitValue(c) == (CHOOSE d \in 1..10 : DigitChars[d] = c) - 1

NaN == [t |-> "nan"]

\* The value of the digits of s from position i on, up to the first character
\* that is no digit, continuing the value acc.
RECURSIVE DigitsValue(_, _, _)
DigitsValue(s, i, acc) ==
  IF i > Len(s) \/ ~IsDigit(s[i]) THEN acc
  ELSE DigitsValue(s, i + 1, 10 * acc + DigitValue(s[i]))

\* parseInt(x) for a query parameter: JNull is an absent parameter, a string is
\* given character by character.  An optional sign, then the leading digits;
\* NaN without a leading digit.
parseInt(x) ==
  IF x.t # "str" THEN NaN
  ELSE LET signed == Len(x.v) > 0 /\ x.v[1] \in {"-", "+"}
           from == IF signed THEN 2 ELSE 1
       IN  IF from > Len(x.v) \/ ~IsDigit(x.v[from]) THEN NaN
           ELSE JNum((IF signed /\ x.v[1] = "-" THEN -1 ELSE 1) * DigitsValue(x.v, from, 0))

\* n || fallback for the result of parseInt.
OrDefault(n, fallback) == IF n = NaN \/ n.v = 0 THEN fallback ELSE n.v

Max(a, b) == IF a >= b THEN a ELSE b

Min(a, b) == IF a <= b THEN a ELSE b

\* Math.ceil(a / b) for a >= 0 and b >= 1.
CeilDiv(a, b) == (a + b - 1) \div b

\* Array.prototype.slice(from, to) for 0 <= from <= to.
Slice(seq, from, to) == SubSeq(seq, from + 1, Min(to, Len(seq)))

\* The body of the 200 response, a flat record: page, limit and totalPages are
\* present only when pagination was asked for.
AgentList(hasPagination, page, limit, total, totalPages, agents) ==
  << Field("success", JBool(TRUE)),
     Field("count", JNum(Len(agents))),
     Field("total", JNum(total)) >>
  \o ( IF hasPagination
       THEN << Field("page", JNum(page)), Field("limit", JNum(limit)),
               Field("totalPages", JNum(totalPages)) >>
       ELSE <<>> )
  \o << Field("agents", JArr(agents)) >>

\* req.query.name: JNull is undefined.
QueryParam(query, name) == GetField(JObj(query), <<name>>)

\* Mutant: the offset of a page is page * limit.
ListAgentsSkipFirstPage(query, result) ==
  LET hasPagination == QueryParam(query, "page") # JNull \/ QueryParam(query, "limit") # JNull
      page == Max(1, OrDefault(parseInt(QueryParam(query, "page")), 1))
      limit == Max(1, Min(100, OrDefault(parseInt(QueryParam(query, "limit")), 20)))
      allAgents == SelectSeq(result, isNftIdentifier)
      total == Len(allAgents)
  IN  IF hasPagination
      THEN AgentList(TRUE, page, limit, total, CeilDiv(total, limit),
                     Slice(allAgents, page * limit, page * limit + limit))
      ELSE AgentList(FALSE, 0, 0, total, 1, allAgents)

\* routes/mother.ts GET /v1/mother/agents, given the subjects search() found in
\* the order of the result object.
ListAgents(query, result) ==
  LET hasPagination == QueryParam(query, "page") # JNull \/ QueryParam(query, "limit") # JNull
      page == Max(1, OrDefault(parseInt(QueryParam(query, "page")), 1))
      limit == Max(1, Min(100, OrDefault(parseInt(QueryParam(query, "limit")), 20)))
      offset == (page - 1) * limit
      allAgents == SelectSeq(result, isNftIdentifier)
      total == Len(allAgents)
  IN  IF hasPagination
      THEN AgentList(TRUE, page, limit, total, CeilDiv(total, limit),
                     Slice(allAgents, offset, offset + limit))
      ELSE AgentList(FALSE, 0, 0, total, 1, allAgents)

\* Most subjects a search result holds.
MaxFound == 6

\* The k-th subject search() finds: identifiers of the contract, and every
\* third one a subject that is no identifier.
FoundSubject(k) ==
  IF k % 3 = 2 THEN <<"0xA11CE", ToString(k)>>
  ELSE formatNftIdentifier(ChainIdStr, ContractAddress, <<ToString(k)>>)

SearchFound == { [k \in 1..n |-> FoundSubject(k)] : n \in 0..MaxFound }

\* The texts of the query parameter page; <<>> is a request without it.
PageParams ==
  { <<>>, <<"1">>, <<"2">>, <<"3">>, <<"0">>, <<"-", "1">>, <<"x">>, <<"7">> }

LimitParams ==
  { <<>>, <<"1">>, <<"2">>, <<"3">>, <<"0">>, <<"-", "5">>, <<"1", "5", "0">>, <<"x">>,
    <<"2", ".", "7">> }

\* req.query for the given texts, a flat record.
Query(page, limit) ==
  (IF page = <<>> THEN <<>> ELSE << Field("page", JStr(page)) >>)
  \o (IF limit = <<>> THEN <<>> ELSE << Field("limit", JStr(limit)) >>)

CallListAgents(query, result) ==
  Called("GET /v1/mother/agents", <<query, result>>, ListAgents(query, result))

\* ----------------------------------------------- ERC-8004 record preparation
KeyProviderOrganization == <<"provider", Colon, "organization">>

\* utils.ts extractRelevantA2AFields: skill_tags, and the provider's
\* organization when the card has one.
extractRelevantA2AFields(a2aAgentCard) ==
  LET result == << <<KeySkillTags, collectSkillTagsFromData(a2aAgentCard)>> >>
      provider == GetField(a2aAgentCard, <<"provider">>)
      organization == IF provider.t = "obj" THEN GetField(provider, <<"organization">>)
                      ELSE JNull
  IN  IF Truthy(provider) /\ TypeofObject(provider) /\ Truthy(organization)
      THEN SetKey(result, <<"provider_organization">>, organization)
      ELSE result

\* utils.ts extractERC8004Fields: the entries of the input under an allowed key.
RECURSIVE FilterAllowed(_, _)
FilterAllowed(entries, allowed) ==
  IF Len(entries) = 0 THEN <<>>
  ELSE IF entries[1][1] \in allowed
  THEN <<entries[1]>> \o FilterAllowed(Tail(entries), allowed)
  ELSE FilterAllowed(Tail(entries), allowed)

extractERC8004Fields(input) ==
  FilterAllowed(input.v, { <<"type">>, <<"name">>, <<"description">>, <<"image">>,
                           <<"endpoints">>, <<"registrations">> })

\* The rejection of fetchJsonFromUri.
FetchFailed == [t |-> "throw"]

\* endpoints.find(...): the first endpoint named A2A with a truthy address, or
\* JNull.
RECURSIVE FindA2A(_)
FindA2A(endpoints) ==
  IF Len(endpoints) = 0 THEN JNull
  ELSE IF GetField(endpoints[1], <<"name">>) = JStr(<<"A2A">>)
          /\ Truthy(GetField(endpoints[1], <<"endpoint">>))
  THEN endpoints[1]
  ELSE FindA2A(Tail(endpoints))

\* utils.ts fetchAgentCardFromErc8004, given what fetching the A2A endpoint
\* yields: the card, or null without an A2A endpoint or when the fetch fails.
fetchAgentCardFromErc8004(metadata, fetched) ==
  IF FindA2A(GetField(metadata, <<"endpoints">>).v) = JNull THEN JNull
  ELSE IF fetched = FetchFailed THEN JNull
  ELSE fetched

\* Object.assign(target, source) on flat records.
RECURSIVE Assign(_, _)
Assign(target, source) ==
  IF Len(source) = 0 THEN target
  ELSE Assign(SetKey(target, source[1][1], source[1][2]), Tail(source))

\* delete rec[k]
DeleteKey(rec, k) == SelectSeq(rec, LAMBDA e : e[1] # k)

\* normalizeERC8004, the forEach over endpoints: endpoint_<name>, its version
\* and its stringified capabilities become keys of out.
RECURSIVE NormalizeEndpoints(_, _)
NormalizeEndpoints(endpoints, out) ==
  IF Len(endpoints) = 0 THEN out
  ELSE LET ep == endpoints[1]
           name == GetField(ep, <<"name">>)
           prefix == <<"endpoint_">> \o name.v
           endpoint == GetField(ep, <<"endpoint">>)
           version == GetField(ep, <<"version">>)
           capabilities == GetField(ep, <<"capabilities">>)
           o1 == IF Truthy(endpoint) THEN SetKey(out, prefix, endpoint) ELSE out
           o2 == IF Truthy(version) THEN SetKey(o1, prefix \o <<"_version">>, version) ELSE o1
           o3 == IF Truthy(capabilities)
                 THEN SetKey(o2, prefix \o <<"_capabilities">>, JStr(JsonStringify(capabilities)))
                 ELSE o2
       IN  IF ~Truthy(name) THEN NormalizeEndpoints(Tail(endpoints), out)
           ELSE NormalizeEndpoints(Tail(endpoints), o3)

\* normalizeERC8004, the chain ids of the registrations: the second
\* colon-separated part of agentRegistry, where there is one.
RECURSIVE ChainIds(_)
ChainIds(registrations) ==
  IF Len(registrations) = 0 THEN <<>>
  ELSE LET agentRegistry == GetField(registrations[1], <<"agentRegistry">>)
           parts == IF agentRegistry.t = "str" THEN split(agentRegistry.v) ELSE <<>>
       IN  IF Len(parts) >= 2 /\ parts[2] # <<>>
           THEN <<JStr(parts[2])>> \o ChainIds(Tail(registrations))
           ELSE ChainIds(Tail(registrations))

\* utils.ts normalizeERC8004
normalizeERC8004(input) ==
  LET endpoints == GetField(JObj(input), <<"endpoints">>)
      o1 == IF endpoints.t = "arr"
            THEN DeleteKey(NormalizeEndpoints(endpoints.v, input), <<"endpoints">>)
            ELSE input
      registrations == GetField(JObj(o1), <<"registrations">>)
  IN  IF registrations.t = "arr"
      THEN SetKey(o1, <<"registrations">>, JArr(ChainIds(registrations.v)))
      ELSE o1

\* utils.ts prepareERC8004ForSync, given what fetching the A2A endpoint yields.
prepareERC8004ForSync(input, fetched) ==
  LET extracted == extractERC8004Fields(input)
      agentCard == fetchAgentCardFromErc8004(input, fetched)
      merged == IF Truthy(agentCard)
                THEN Assign(extracted, extractRelevantA2AFields(agentCard))
                ELSE extracted
      flattened == flattenToOneLevel(JObj(normalizeERC8004(merged)), <<>>, <<>>)
  IN  normalizeFlatValues(
        SetKey(flattened, KeyKeywords, JArr(<<JStr(KeywordA), JStr(KeywordB)>>)))

\* A2A agent cards: with a provider organization and skills, with a provider
\* organization only, with an empty organization, with a provider that is a
\* string, and without provider.
A2ACards ==
  { DataSkills,
    JObj(<< Field("provider", JObj(<< Field("organization", JStr(<<"Org">>)),
                                       Field("url", JStr(<<"u1">>)) >>)) >>),
    JObj(<< Field("provider", JObj(<< Field("organization", JStr(<<>>)) >>)) >>),
    JObj(<< Field("provider", JStr(<<"Org">>)) >>),
    JObj(<< Field("name", JStr(<<"Alpha">>)) >>) }

\* An endpoint of ERC-8004 metadata.
Endpoint(name, endpoint) ==
  JObj(<< Field("name", JStr(name)), Field("endpoint", JStr(endpoint)) >>)

\* Validated ERC-8004 metadata: with an A2A endpoint, a registration and a key
\* outside the allowed ones; with an MCP endpoint only; with an A2A endpoint
\* without address followed by one with address, version and capabilities.
Erc8004Inputs ==
  { JObj(<< Field("type", JStr(<<"registration-v1">>)),
            Field("name", JStr(<<"Alpha">>)),
            Field("provider", JObj(<< Field("organization", JStr(<<"Meta">>)) >>)),
            Field("endpoints", JArr(<< Endpoint(<<"A2A">>, <<"u1">>) >>)),
            Field("registrations",
                  JArr(<< JObj(<< Field("agentRegistry",
                                        JStr(<<"eip155", Colon, "11155111", Colon, "0xC0FFEE">>)) >>),
                          JObj(<<>>) >>)) >>),
    JObj(<< Field("name", JStr(<<"Beta">>)),
            Field("endpoints", JArr(<< Endpoint(<<"MCP">>, <<"u2">>) >>)) >>),
    JObj(<< Field("name", JStr(<<"Gamma">>)),
            Field("endpoints",
                  JArr(<< Endpoint(<<"A2A">>, <<>>),
                          JObj(<< Field("name", JStr(<<"A2A">>)),
                                  Field("endpoint", JStr(<<"u2">>)),
                                  Field("version", JStr(<<"0.3.0">>)),
                                  Field("capabilities", JObj(<< Field("streaming", JBool(TRUE)) >>))
                               >>) >>)) >>) }

CallExtractA2AFields(a2aAgentCard) ==
  Called("extractRelevantA2AFields", a2aAgentCard, extractRelevantA2AFields(a2aAgentCard))

CallPrepareERC8004(input, fetched) ==
  Called("prepareERC8004ForSync", <<input, fetched>>, prepareERC8004ForSync(input, fetched))

PureNext ==
  \/ \E a2aAgentCard \in A2ACards : CallExtractA2AFields(a2aAgentCard)
  \/ \E input \in Erc8004Inputs, fetched \in A2ACards \cup {FetchFailed} :
       CallPrepareERC8004(input, fetched)
  \/ \E page \in PageParams, limit \in LimitParams, result \in SearchFound :
       CallListAgents(Query(page, limit), result)
  \/ \E atomDetails \in AtomDetailsInputs : CallMapAtomDetails(atomDetails)
  \/ \E receipt \in Receipts : CallExtractTokenId(receipt)
  \/ \E receipt \in Receipts : CallMintAgentIdentity(receipt)
  \/ \E input \in FlattenInputs : CallFlatten(input)
  \/ \E flat \in FlatRecords : CallNormalize(flat)
  \/ \E flat \in FlatRecords : CallNormalizeRoute(flat)
  \/ \E data \in SkillPayloads : CallCollectSkillTags(data)

PureSpec == PureInit /\ [][PureNext]_vars

\* --------------------------------------------------------------- properties
Idx == 1..Len(reqs)

\* The requests the middleware let through to the handler of each route.
IsAgent(i) == reqs[i].route = "agent" /\ reqs[i].handled

IsEvent(i) == reqs[i].route = "events" /\ reqs[i].handled

\* A subject made of three colon-separated parts.
ThreeParts(s) == Cardinality({ k \in 1..Len(s) : s[k] = Colon }) = 2

\* The request got its identifier from the lookup and goes on without minting.
Reused(i) ==
  /\ reqs[i].lookup # "none" /\ reqs[i].pc \in {"sync", "done"} /\ reqs[i].mintCalls = 0

\* The request's own mint succeeded.
Minted(i) == reqs[i].tx # <<>>

\* The sync call was rejected for a reason other than an existing atom.
SyncFailed(i) ==
  /\ reqs[i].syncOutcome = "throw"
  /\ reqs[i].syncError \notin {ErrAtomExists, ErrAtomExistsCause}

SyncSaidExists(i) ==
  /\ reqs[i].syncOutcome = "throw"
  /\ reqs[i].syncError \in {ErrAtomExists, ErrAtomExistsCause}

\* The status the handlers of /v1/mother/agent give a thrown error.
CatchStatus(error) == IF error.name = "AbortError" THEN 504 ELSE 500

\* The identifier of token n of the configured contract.
NftIdOf(n) == Join3(ChainIdStr, env.AGENT_IDENTITY_CONTRACT_ADDRESS, <<ToString(n)>>)

\* C1: across submissions of one URL to POST /v1/mother/agent, each answered
\* before the next arrives, and with a search that answers and returns only
\* composite identifiers, a request never mints when an earlier request for
\* the URL has minted: no two identifiers are ever minted for one URL.
C1_NeverTwoIdentifiers ==
  \A i \in Idx, j \in Idx :
    ( /\ IsAgent(i) /\ IsAgent(j)
      /\ i \in reqs[j].after
      /\ reqs[i].url = reqs[j].url
      /\ Minted(i)
      /\ reqs[i].lookup # "threw"
      /\ reqs[j].lookup \in {"empty", "found"}
      /\ \A s \in reqs[j].matches : ThreeParts(s) )
    => reqs[j].pc # "mint" /\ reqs[j].mintCalls = 0

\* C2: when a first POST /v1/mother/agent for a URL answered success with
\* nftId n, a later POST for the same URL whose search answers resolves to n
\* through checkUrlExists and does not call mintAgentIdentity.
C2_SecondSubmissionReuses ==
  \A i \in Idx, j \in Idx :
    ( /\ IsAgent(i) /\ IsAgent(j)
      /\ i \in reqs[j].after
      /\ reqs[i].url = reqs[j].url
      /\ reqs[i].resp.status = 200
      /\ reqs[j].lookup \in {"empty", "found"}
      /\ \A s \in reqs[j].matches : ThreeParts(s) )
    => /\ reqs[j].pc # "mint" /\ reqs[j].mintCalls = 0
       /\ reqs[j].nftId = reqs[i].resp.nftId

C6_SyncCalledOnce ==
  \A i \in Idx :
    IsAgent(i) =>
      /\ reqs[i].syncCalls <= 1
      /\ reqs[i].pc \in {"lookup", "mint", "sync"} => reqs[i].syncCalls = 0
      /\ (Done(i) /\ reqs[i].nftId # <<>>) => reqs[i].syncCalls = 1
      /\ (Done(i) /\ reqs[i].nftId = <<>>) => reqs[i].syncCalls = 0
      /\ (Done(i) /\ SyncFailed(i)) =>
           /\ ~reqs[i].resp.success
           /\ reqs[i].resp.status \in {500, 504}
           /\ reqs[i].resp.message = reqs[i].syncError.message

\* An answered agent request whose single sync call was rejected by the network.
C6_Witness ==
  \E i \in Idx :
    /\ IsAgent(i) /\ Done(i) /\ reqs[i].syncCalls = 1
    /\ reqs[i].syncError = ErrNetwork /\ reqs[i].resp.status = 500

\* C7: when an agent request's mint succeeded and its sync then failed, the
\* request is answered as a failure, the token it minted is still minted, and
\* the registry holds no entry under the minted identifier: nothing undoes the
\* mint and nothing records it.
C7_MintSurvivesFailedSync ==
  \A i \in Idx :
    (IsAgent(i) /\ Done(i) /\ Minted(i) /\ SyncFailed(i)) =>
      /\ ~reqs[i].resp.success /\ reqs[i].resp.status \in {500, 504}
      /\ reqs[i].resp.nftId = <<>>
      /\ \E n \in tokens : reqs[i].nftId = NftIdOf(n)
      /\ reqs[i].added = {}
      /\ \A t \in registry : t[1] # reqs[i].nftId /\ t[3] # reqs[i].nftId

\* The execution the statement speaks of: minted, sync failed, answered 500.
C7_Witness ==
  \E i \in Idx :
    /\ IsAgent(i) /\ Done(i) /\ Minted(i) /\ reqs[i].registerCalls = 1
    /\ reqs[i].syncCalls = 1 /\ reqs[i].syncError = ErrNetwork
    /\ reqs[i].resp.status = 500
    /\ \E n \in tokens : reqs[i].nftId = NftIdOf(n)
    /\ \A t \in registry : t[1] # reqs[i].nftId

\* The request called mintAgentIdentity, register() was submitted, and no
\* identifier came back: the transaction was rejected or its receipt carried
\* no mint event.
MintFailedAfterSubmit(i) ==
  /\ IsAgent(i) /\ reqs[i].mintCalls >= 1 /\ reqs[i].registerCalls >= 1 /\ ~Minted(i)

MsgNoTokenId == <<"Failed to extract token ID">>

C9_MissingConfigFailsBeforeSubmit ==
  \A i \in Idx :
    ( /\ IsAgent(i) /\ reqs[i].mintCalls >= 1
      /\ \/ env.AGENT_IDENTITY_CONTRACT_ADDRESS = <<>>
         \/ env.SIGNER = <<>>
         \/ env.SEPOLIA_RPC_URL = <<>> )
    => /\ reqs[i].registerCalls = 0
       /\ ~Minted(i)
       /\ Done(i) /\ reqs[i].resp.status = 500

IsMintLog(log) ==
  /\ Len(log) = 4 /\ log[1] = TransferEventSignature
  /\ log[2][3] = ZeroHex

\* The decimal text of a two-digit hexadecimal topic.
DecimalOf(topic) == <<ToString(16 * topic[1] + topic[2])>>

\* The first mint log of a receipt that has one.
FirstMintLog(receipt) ==
  receipt[CHOOSE k \in 1..Len(receipt) :
            /\ IsMintLog(receipt[k])
            /\ \A h \in 1..(k - 1) : ~IsMintLog(receipt[h])]

HasMintLog(receipt) == \E k \in 1..Len(receipt) : IsMintLog(receipt[k])

\* C11: extractTokenIdFromReceipt returns null when the receipt has no
\* Transfer log from the zero address, and otherwise the decimal string of the
\* token id topic of the first such log; mintAgentIdentity then returns
\* chainId:contractAddress:tokenId with that token id and the configured
\* contract address, and fails when there is no such log.
C11_TokenIdOfMintEvent ==
  /\ call.fn = "extractTokenIdFromReceipt" =>
       IF HasMintLog(call.arg)
       THEN call.out = JStr(DecimalOf(FirstMintLog(call.arg)[4]))
       ELSE call.out = JNull
  /\ call.fn = "mintAgentIdentity" =>
       IF HasMintLog(call.arg)
       THEN /\ call.out.ok
            /\ call.out.nftId = <<"11155111", ":", "0xC0FFEE", ":">>
                                  \o DecimalOf(FirstMintLog(call.arg)[4])
       ELSE ~call.out.ok /\ call.out.nftId = <<>>

\* A receipt whose first log is a transfer between holders and whose second is
\* the mint of token 26 (hexadecimal 1a): the result is "26".
C11_Witness ==
  /\ call.fn = "extractTokenIdFromReceipt"
  /\ call.arg = <<TransferLog(OtherHex, OtherHex, 3), TransferLog(ZeroHex, OtherHex, 26)>>
  /\ call.out = JStr(<<"26">>)

\* A plain object: an object that is not an array and not null.
IsPlainObject(x) == x.t = "obj"

\* What the flattener stores for a leaf: an array with every object or array
\* element replaced by its JSON text, any other value as it is.
StoredLeaf(v) ==
  IF v.t = "arr"
  THEN JArr([j \in 1..Len(v.v) |->
               IF v.v[j].t \in {"obj", "arr"} THEN JStr(JsonStringify(v.v[j])) ELSE v.v[j]])
  ELSE v

\* The leaves of a plain object in traversal order, each with its path joined
\* by ':'.  A leaf is any value that is not a plain object.
RECURSIVE LeafSeq(_, _)
RECURSIVE LeafSeqFrom(_, _, _)
LeafSeqFrom(entries, i, prefix) ==
  IF i > Len(entries) THEN <<>>
  ELSE LET key  == IF prefix = <<>> THEN entries[i][1]
                   ELSE prefix \o <<Colon>> \o entries[i][1]
           here == IF IsPlainObject(entries[i][2]) THEN LeafSeq(entries[i][2], key)
                   ELSE << <<key, entries[i][2]>> >>
       IN  here \o LeafSeqFrom(entries, i + 1, prefix)

LeafSeq(obj, prefix) == LeafSeqFrom(obj.v, 1, prefix)

\* No entry of a flat record holds a plain object, and no array in it holds an
\* object or an array.
IsOneLevel(flat) ==
  \A i \in 1..Len(flat) :
    /\ flat[i][2].t # "obj"
    /\ flat[i][2].t = "arr" =>
         \A j \in 1..Len(flat[i][2].v) : flat[i][2].v[j].t \notin {"obj", "arr"}

UniqueKeys(flat) == \A i \in 1..Len(flat), j \in 1..Len(flat) : flat[i][1] = flat[j][1] => i = j

\* C12 (as stated): the output of flattenToOneLevel holds, for every leaf of
\* the input, the leaf's value under the leaf's joined path; it is empty for an
\* input that is not a plain object; no output value is an object and no
\* output array holds one.
C12_EveryLeafUnderItsPath ==
  call.fn = "flattenToOneLevel" =>
    IF ~IsPlainObject(call.arg) THEN call.out = <<>>
    ELSE LET leaves == LeafSeq(call.arg, <<>>)
         IN  /\ IsOneLevel(call.out) /\ UniqueKeys(call.out)
             /\ Keys(call.out) = { leaves[i][1] : i \in 1..Len(leaves) }
             /\ \A i \in 1..Len(leaves) :
                  \E k \in 1..Len(call.out) :
                    call.out[k] = <<leaves[i][1], StoredLeaf(leaves[i][2])>>

\* C12 (amended): the keys of the output are exactly the joined paths of the
\* leaves of the input; each key holds the value of the last leaf, in traversal
\* order, whose path joins to that key (arrays kept as arrays, their object and
\* array elements replaced by their JSON text); the output is empty for an
\* input that is not a plain object; no output value is an object and no
\* output array holds one.
C12_LastLeafUnderItsPath ==
  call.fn = "flattenToOneLevel" =>
    IF ~IsPlainObject(call.arg) THEN call.out = <<>>
    ELSE LET leaves == LeafSeq(call.arg, <<>>)
         IN  /\ IsOneLevel(call.out) /\ UniqueKeys(call.out)
             /\ Keys(call.out) = { leaves[i][1] : i \in 1..Len(leaves) }
             /\ \A i \in 1..Len(leaves) :
                  (\A j \in (i + 1)..Len(leaves) : leaves[j][1] # leaves[i][1]) =>
                    \E k \in 1..Len(call.out) :
                      call.out[k] = <<leaves[i][1], StoredLeaf(leaves[i][2])>>

\* {a: {b: {c: 1}}, "a:b": "s"}: the output holds a:b:c = 1 and a:b = "s".
C12_Witness ==
  /\ call.fn = "flattenToOneLevel"
  /\ call.arg = JObj(<< Field("a", JObj(<< Field("b", JObj(<< Field("c", JNum(1)) >>)) >>)),
                        <<KeyAB, JStr(<<"s">>)>> >>)
  /\ call.out = << << <<"a", Colon, "b", Colon, "c">>, JNum(1) >>, <<KeyAB, JStr(<<"s">>)>> >>

\* The canonical text of a number or a boolean.
CanonicalText(x) ==
  CASE x.t = "num"  -> <<ToString(x.v)>>
    [] x.t = "bool" -> IF x.v THEN <<"true">> ELSE <<"false">>

\* The string an element of an array becomes.
ElementText(item) ==
  CASE item.t = "null" -> <<>>
    [] item.t = "str"  -> item.v
    [] item.t \in {"num", "bool"} -> CanonicalText(item)
    [] OTHER -> JsonStringify(item)

IsStringOrStrings(x) ==
  \/ x.t = "str"
  \/ x.t = "arr" /\ \A j \in 1..Len(x.v) : x.v[j].t = "str"

\* C13: every value normalizeFlatValues returns - the function of utils.ts and
\* the copy of routes/events.ts alike - is a string or an array of strings; the
\* keys of the output are the keys of the input whose value is not null;
\* strings are unchanged, numbers and booleans become their canonical text, an
\* array becomes the array of its elements' texts with null as the empty
\* string.
C13_NormalizedValuesAreStrings ==
  call.fn \in {"normalizeFlatValues", "normalizeFlatValues (routes/events.ts)"} =>
    /\ \A i \in 1..Len(call.out) : IsStringOrStrings(call.out[i][2])
    /\ UniqueKeys(call.out)
    /\ Keys(call.out) = { call.arg[i][1] : i \in { h \in 1..Len(call.arg) : call.arg[h][2].t # "null" } }
    /\ \A i \in 1..Len(call.arg) :
         LET v == call.arg[i][2]
             stored == GetField(JObj(call.out), call.arg[i][1])
         IN  CASE v.t = "null" -> ~HasKey(call.out, call.arg[i][1])
               [] v.t = "str"  -> stored = v
               [] v.t \in {"num", "bool"} -> stored = JStr(CanonicalText(v))
               [] v.t = "arr"  ->
                    /\ stored.t = "arr" /\ Len(stored.v) = Len(v.v)
                    /\ \A j \in 1..Len(v.v) : stored.v[j] = JStr(ElementText(v.v[j]))
               [] OTHER -> stored.t = "str"

\* The skill objects an entry of a skills array stands for: the entry itself
\* when it is an object, the object its text encodes when it is a string that
\* encodes one, nothing otherwise.
SkillsOfEntry(entry) ==
  IF entry.t = "obj" THEN {entry}
  ELSE IF entry.t = "str"
  THEN { x \in Parsable : x.t = "obj" /\ JsonStringify(x) = entry.v }
  ELSE {}

\* The trimmed, non-empty string tags of the tags array of a skill object.
TagsOfSkill(skill) ==
  LET tags == GetField(skill, <<"tags">>)
  IN  IF tags.t # "arr" THEN {}
      ELSE { trim(tags.v[j].v) : j \in { h \in 1..Len(tags.v) :
                                          tags.v[h].t = "str" /\ trim(tags.v[h].v) # <<>> } }

\* The tags of a payload: those of the entries of its skills array.
TagsOfPayload(data) ==
  IF data.t # "obj" THEN {}
  ELSE LET skills == GetField(data, <<"skills">>)
       IN  IF skills.t # "arr" THEN {}
           ELSE UNION { UNION { TagsOfSkill(x) : x \in SkillsOfEntry(skills.v[i]) } :
                          i \in 1..Len(skills.v) }

IsMapCall == call.fn = "mapAtomDetailsToAgentData"

\* The triples handed to the mapper (none when as_subject_triples is missing).
TriplesOfCall ==
  IF call.arg.t = "null" \/ call.arg.as_subject_triples.t # "arr" THEN <<>>
  ELSE call.arg.as_subject_triples.v

IsArrayValue(rec, k) == HasKey(rec, k) /\ GetField(JObj(rec), k).t = "arr"

\* C15 (as stated): whatever its argument, the view returned by
\* mapAtomDetailsToAgentData has the keys tags and skillTags, each an array.
C15_ViewAlwaysHasTagLists ==
  IsMapCall => IsArrayValue(call.out, <<"tags">>) /\ IsArrayValue(call.out, <<"skillTags">>)

\* The predicate key of a triple (JNull when it has none).
PredicateOf(triple) == Or(triple.pdata, triple.plabel)

HasPredicate(triple, k) == PredicateOf(triple) = JStr(k)

\* The triples of the call whose predicate is k, in input order.
TriplesWith(k) == SelectSeq(TriplesOfCall, LAMBDA triple : HasPredicate(triple, k))

\* The keys the mapper adds whatever the triples are.
AggregateKeys == { <<"tags">>, <<"skillTags">> }

\* A triple the whitelist or the two tag predicates let through.
IsListed(triple) ==
  \E k \in fieldsToInclude \cup { KeyKeywords, KeySkillTags } : HasPredicate(triple, k)

DataTriplesWith(k) ==
  SelectSeq(TriplesWith(k), LAMBDA triple : triple.odata.t # "null")

\* C17 (as stated): when a triple has the predicate
\* capabilities:stateTransitionHistory, the view has that key, with the boolean
\* that is true exactly when the raw data of the first such triple is "true".
C17_BooleanFieldDecoded ==
  IsMapCall /\ Len(DataTriplesWith(KeyStateTransitionHistory)) > 0 =>
    /\ HasKey(call.out, KeyStateTransitionHistory)
    /\ GetField(JObj(call.out), KeyStateTransitionHistory)
         = JBool(DataTriplesWith(KeyStateTransitionHistory)[1].odata = JStr(<<"true">>))

\* The display values of a sequence of triples, from triple i on, without
\* repeats.
RECURSIVE DisplayValues(_, _, _)
DisplayValues(triples, i, acc) ==
  IF i > Len(triples) THEN acc
  ELSE DisplayValues(triples, i + 1, SetAdd(acc, Or(triples[i].olabel, triples[i].odata)))

\* The tags parsed from the raw JSON of a sequence of triples, from triple i
\* on, without repeats; a triple whose data is not JSON gives none.
RECURSIVE ParsedTags(_, _, _)
ParsedTags(triples, i, acc) ==
  IF i > Len(triples) THEN acc
  ELSE LET tags == extractSkillTagsFromTriple(triples[i])
       IN  ParsedTags(triples, i + 1, Dedupe(acc \o [j \in 1..Len(tags) |-> JStr(tags[j])]))

\* C18 (as stated): when triples have the predicate authentication:schemes,
\* the view holds under that key the array of their values without repeats;
\* when triples have the predicate skills, the view holds under skills the
\* array of the tags parsed from their raw JSON data, without repeats.
C18_ArrayFieldsAccumulated ==
  IsMapCall =>
    /\ Len(DataTriplesWith(KeyAuthenticationSchemes)) > 0 =>
         /\ HasKey(call.out, KeyAuthenticationSchemes)
         /\ GetField(JObj(call.out), KeyAuthenticationSchemes)
              = JArr(DisplayValues(DataTriplesWith(KeyAuthenticationSchemes), 1, <<>>))
    /\ Len(DataTriplesWith(KeySkills)) > 0 =>
         /\ HasKey(call.out, KeySkills)
         /\ GetField(JObj(call.out), KeySkills)
              = JArr(ParsedTags(DataTriplesWith(KeySkills), 1, <<>>))

ConfiguredSecrets(environment) ==
  ( { environment.API_KEY }
    \cup { ApiKeyN(environment, n) :
             n \in { m \in 1..2 : \A j \in 1..m : ApiKeyN(environment, j) # <<>> } }
    \cup { trim(splitComma(environment.API_KEYS)[j]) :
             j \in 1..Len(splitComma(environment.API_KEYS)) } )
  \ { <<>> }

\* The request made no fetch, no mint and no sync.
Untouched(r) ==
  /\ ~r.fetched
  /\ r.mintCalls = 0 /\ r.registerCalls = 0 /\ r.tx = <<>>
  /\ r.syncCalls = 0 /\ r.submitted = {} /\ r.added = {}

\* C20: a request to a protected route whose body the server could read
\* reaches the handler if and only if its
\* x-api-key header is one of the configured secrets; otherwise it is answered
\* 500 when no secret is configured, else 401 when the header is absent, else
\* 403, and it has made no fetch, no mint and no sync.
C20_ApiKeyGate ==
  \A i \in Idx :
    LET r == reqs[i]
        secrets == ConfiguredSecrets(env)
    IN  (r.route \in JsonRoutes /\ r.parsed) =>
        /\ r.handled <=> r.apiKey \in secrets
        /\ ~r.handled =>
             /\ r.pc = "done"
             /\ r.resp.status = IF secrets = {} THEN 500
                                ELSE IF r.apiKey = <<>> THEN 401 ELSE 403
             /\ ~r.resp.success
             /\ Untouched(r)

\* A request with a wrong key was answered 403 and one with a configured key
\* went on to mint and sync.
C20_Witness ==
  \E i, j \in Idx :
    /\ ~reqs[i].handled /\ reqs[i].apiKey # <<>> /\ reqs[i].resp.status = 403
    /\ reqs[j].handled /\ Minted(j) /\ reqs[j].syncCalls = 1 /\ reqs[j].resp.status = 200

\* The request called neither mintAgentIdentity nor sync.
NoMintNoSync(i) ==
  /\ reqs[i].mintCalls = 0 /\ reqs[i].registerCalls = 0 /\ ~Minted(i)
  /\ reqs[i].syncCalls = 0 /\ reqs[i].added = {}

\* The upstream fetch of the request ended with the answer the route gives it:
\* non-2xx 502, a body that is not JSON or not a JSON object 415, timeout 504.
UpstreamErrorAnswered(i) ==
  /\ reqs[i].upstream = "non2xx" => reqs[i].resp.status = 502
  /\ reqs[i].upstream \in {"notjson", "notobject"} => reqs[i].resp.status = 415
  /\ reqs[i].upstream = "timeout" => reqs[i].resp.status = 504
  /\ reqs[i].upstream \in {"non2xx", "notjson", "notobject", "timeout"} =>
       Done(i) /\ NoMintNoSync(i)

RequestedUrl(body) ==
  IF body.kind = "text" THEN trim(body.value.v)
  ELSE LET u == Prop(body.value, "url")
       IN  IF u.t = "str" THEN u.v ELSE <<>>

\* The body of the request names no url or names one that is not a valid URL.
InvalidBody(r) == ~r.parsed \/ ~IsValidUrl(RequestedUrl(r.input))

\* C22 (as stated): a request to POST /v1/mother/agent with an accepted API key
\* whose body is malformed, has no url or carries an invalid URL, as text or as
\* the url field of a JSON body, is answered 400 and makes no upstream fetch,
\* no registry lookup, no mint and no sync.
C22_InvalidBodyAnswers400 ==
  \A i \in Idx :
    ( /\ reqs[i].route = "agent" /\ (reqs[i].handled \/ ~reqs[i].parsed)
      /\ InvalidBody(reqs[i]) )
    => /\ Done(i) /\ reqs[i].resp.status = 400
       /\ ~reqs[i].fetched /\ reqs[i].lookup = "none"
       /\ NoMintNoSync(i)

\* C23 (as stated): every response with a status outside 200..299 has a JSON
\* body with success: false, an error category and a message.
C23_FailuresCarrySuccessFalse ==
  \A i \in Idx :
    (Done(i) /\ reqs[i].resp.status \notin 200..299) =>
      /\ reqs[i].resp.hasSuccess /\ ~reqs[i].resp.success
      /\ reqs[i].resp.error # ""
      /\ reqs[i].resp.message # <<>>

\* The body is an event of type quiz_completed whose userAddress, communityId,
\* metadata.quizId, metadata.completedAt and version are strings.
WellFormedQuizEvent(event) ==
  /\ event.t = "obj"
  /\ Prop(event, "type") = JStr(<<"quiz_completed">>)
  /\ \A k \in {"userAddress", "communityId", "version"} : Prop(event, k).t = "str"
  /\ Prop(event, "metadata").t = "obj"
  /\ \A k \in {"quizId", "completedAt"} : Prop(Prop(event, "metadata"), k).t = "str"

\* C24: a request POST /v1/intuition/events calls sync only for a well-formed
\* quiz_completed body; every other body is answered 400 without a sync call.
C24_SyncOnlyForWellFormedEvents ==
  \A i \in Idx :
    IsEvent(i) =>
      /\ reqs[i].syncCalls >= 1 => WellFormedQuizEvent(reqs[i].input.value)
      /\ ~WellFormedQuizEvent(reqs[i].input.value) =>
           /\ Done(i) /\ reqs[i].resp.status = 400 /\ ~reqs[i].resp.success
           /\ reqs[i].syncCalls = 0 /\ reqs[i].submitted = {} /\ reqs[i].added = {}

\* An event whose version is a number was answered 400, and a well-formed one
\* was synced.
C24_Witness ==
  \E i, j \in Idx :
    /\ IsEvent(i) /\ reqs[i].input.value = QuizEventNumberVersion /\ reqs[i].resp.status = 400
    /\ IsEvent(j) /\ WellFormedQuizEvent(reqs[j].input.value) /\ reqs[j].syncCalls = 1

IsListCall == call.fn = "GET /v1/mother/agents"

\* The matching agents of the call: the found subjects of three parts.
MatchingAgents == SelectSeq(call.arg[2], ThreeParts)

\* body.name of the response of the call.
Body(name) == GetField(JObj(call.out), <<name>>)

\* The decimal text of a natural number, character by character.
RECURSIVE DecimalChars(_)
DecimalChars(n) ==
  IF n < 10 THEN <<DigitChars[n + 1]>>
  ELSE DecimalChars(n \div 10) \o <<DigitChars[(n % 10) + 1]>>

\* The agents of the pages from page p to the last one, for the limit of the
\* call, one after the other.
RECURSIVE PagesFrom(_)
PagesFrom(p) ==
  IF p > Body("totalPages").v THEN <<>>
  ELSE GetField(JObj(ListAgents(Query(DecimalChars(p), DecimalChars(Body("limit").v)),
                                call.arg[2])), <<"agents">>).v
       \o PagesFrom(p + 1)

\* C25: without page and limit the response holds every matching agent; with
\* either, page >= 1, limit in 1..100 (20 when not given), the response holds
\* at most limit agents, totalPages is the ceiling of total / limit, and the
\* pages 1..totalPages for that limit are, in order, the matching agents, each
\* once.
C25_Pagination ==
  IsListCall =>
    /\ Body("total").v = Len(MatchingAgents)
    /\ Body("count").v = Len(Body("agents").v)
    /\ IF call.arg[1] = <<>>
       THEN /\ Body("agents").v = MatchingAgents
            /\ Keys(call.out) \cap { <<"page">>, <<"limit">>, <<"totalPages">> } = {}
       ELSE /\ Body("page").v >= 1
            /\ Body("limit").v \in 1..100
            /\ QueryParam(call.arg[1], "limit") = JNull => Body("limit").v = 20
            /\ Len(Body("agents").v) <= Body("limit").v
            /\ Body("totalPages").v * Body("limit").v >= Body("total").v
            /\ (Body("totalPages").v - 1) * Body("limit").v < Body("total").v
                 \/ (Body("total").v = 0 /\ Body("totalPages").v = 0)
            /\ PagesFrom(1) = MatchingAgents

\* A paginated call with several pages, answered with a full page that is not
\* the first.
C25_Witness ==
  /\ IsListCall /\ call.arg[1] # <<>>
  /\ Body("limit").v = 2 /\ Body("page").v = 2 /\ Body("totalPages").v >= 2
  /\ Len(Body("agents").v) = 2 /\ Len(MatchingAgents) < Len(call.arg[2])

\* Requests i and j are for the same URL and overlap: j looked the URL up
\* before i was answered, and i looked it up before j was answered.
Overlap(i, j) ==
  /\ i # j /\ IsAgent(i) /\ IsAgent(j)
  /\ reqs[i].url = reqs[j].url
  /\ reqs[i].lookup \in {"empty", "found"} /\ reqs[j].lookup \in {"empty", "found"}
  /\ i \notin reqs[j].lookedAfter /\ j \notin reqs[i].lookedAfter

\* C26 (as stated): of two overlapping requests for one URL whose lookups
\* answered, at most one calls mintAgentIdentity, and once both have an
\* identifier it is the same.
C26_OverlapMintsOnce ==
  \A i \in Idx, j \in Idx :
    Overlap(i, j) =>
      /\ ~(reqs[i].mintCalls >= 1 /\ reqs[j].mintCalls >= 1)
      /\ (reqs[i].nftId # <<>> /\ reqs[j].nftId # <<>>) => reqs[i].nftId = reqs[j].nftId

\* The fetched payload of the request was a JSON object or array from which
\* flattenToOneLevel produced no key/value pair.
FetchedNoPairs(i) ==
  IsAgent(i) /\ reqs[i].upstream = "json" /\ reqs[i].pairs = 0

\* C27 (as stated): a fetched JSON payload that yields no flattened key/value
\* pair is answered 400 "Empty data", with no registry lookup, mint or sync.
C27_EmptyDataAnswers400 ==
  \A i \in Idx :
    FetchedNoPairs(i) =>
      /\ Done(i) /\ reqs[i].resp.status = 400 /\ reqs[i].resp.error = "Empty data"
      /\ reqs[i].lookup = "none" /\ NoMintNoSync(i)

\* The request was answered with a success response (either variant).
AnsweredSuccess(i) ==
  IsAgent(i) /\ Done(i) /\ reqs[i].resp.status = 200 /\ reqs[i].resp.success

\* C28 (as stated): in every success response, mintTransaction is the hash of
\* the mint transaction if this request minted, and null exactly when the
\* request reused an existing identifier.
C28_MintTransactionReported ==
  \A i \in Idx :
    AnsweredSuccess(i) =>
      /\ Minted(i) => reqs[i].resp.mintTransaction = reqs[i].tx /\ reqs[i].tx # <<>>
      /\ reqs[i].resp.mintTransaction = <<>> <=> Reused(i)

\* getAtomDetails for a subject: the triples the registry holds under it, in
\* some order, each atom labelled with its own data.
StoredAtomDetails(subject) ==
  LET stored == SeqOfSet({ t \in registry : t[1] = subject })
  IN  AtomDetails(JArr([k \in 1..Len(stored) |->
        Triple(JStr(stored[k][2]), JStr(stored[k][2]), JStr(stored[k][3]), JStr(stored[k][3]))]))

\* The elements of a JSON array of strings, as a set; empty for anything else.
Elements(value) ==
  IF value.t = "arr" THEN { value.v[k] : k \in 1..Len(value.v) } ELSE {}

\* C29 (as stated): once a POST for URL u has answered success with nftId n,
\* mapAtomDetailsToAgentData of the stored triples of n has agent_card_url = u,
\* tags holding the two marker keywords, and skillTags equal as a set to
\* collectSkillTagsFromData of the fetched payload.
C29_WriteReadRoundTrip ==
  \A i \in Idx :
    AnsweredSuccess(i) =>
      LET view == JObj(mapAtomDetailsToAgentData(StoredAtomDetails(reqs[i].resp.nftId)))
      IN  /\ GetField(view, KeyAgentCardUrl) = JStr(reqs[i].url)
          /\ {JStr(KeywordA), JStr(KeywordB)} \subseteq Elements(GetField(view, <<"tags">>))
          /\ Elements(GetField(view, <<"skillTags">>))
               = Elements(GetField(JObj(reqs[i].flat), KeySkillTags))

\* The A2A agent card has a provider with a (truthy) organization.
HasOrganization(card) ==
  /\ card.t = "obj" /\ GetField(card, <<"provider">>).t = "obj"
  /\ Truthy(GetField(GetField(card, <<"provider">>), <<"organization">>))

OrganizationOf(card) == GetField(GetField(card, <<"provider">>), <<"organization">>)

\* C30 (as stated): for a card with provider.organization,
\* extractRelevantA2AFields returns the organization under provider:organization
\* together with skill_tags, and the record prepareERC8004ForSync builds from
\* metadata whose A2A endpoint served that card carries provider:organization.
C30_ProviderOrganizationCarried ==
  /\ (call.fn = "extractRelevantA2AFields" /\ HasOrganization(call.arg)) =>
       /\ GetField(JObj(call.out), KeyProviderOrganization) = OrganizationOf(call.arg)
       /\ HasKey(call.out, KeySkillTags)
  /\ ( /\ call.fn = "prepareERC8004ForSync"
       /\ fetchAgentCardFromErc8004(call.arg[1], call.arg[2]) # JNull
       /\ HasOrganization(call.arg[2]) ) =>
       GetField(JObj(call.out), KeyProviderOrganization) = OrganizationOf(call.arg[2])

====
